---- MODULE Spec2Model ----
(***************************************************************************)
(* Model of the SMEFlow custom Flowise nodes (flowise/custom-nodes) and of *)
(* the tenant checks of flowise/custom-nodes/utils/validation.js and       *)
(* flowise/middleware/tenant-isolation.js.                                 *)
(*                                                                         *)
(* One invocation of a node's init() is two steps: the synchronous prefix  *)
(* up to the first `await axios.post(...)` (or up to a throw / return),    *)
(* and the continuation that runs when the backend call settles.           *)
(*                                                                         *)
(* JavaScript values:                                                      *)
(*   - a string that the code inspects character by character (a tenant    *)
(*     id) is a tuple of one-character strings;                            *)
(*   - every other value is a tagged pair <<tag, payload>>;                *)
(*   - an object is <<"obj", f>> with f a function from keys to values.    *)
(***************************************************************************)
EXTENDS Integers, Sequences, FiniteSets, TLC

VARIABLES
    pc,         \* "idle" | "pending" | "returned" | "thrown"
    node,       \* the node whose init() is running
    inputs,     \* nodeData.inputs (and the `input` argument) of the invocation
    tenantId,   \* the local variable tenantId of init() (the effective tenant)
    request,    \* the outbound request init() built (headers, body, timeout)
    attempts,   \* number of axios.post calls of the invocation
    reply,      \* how the last axios.post settled
    envelope,   \* the object init() returned
    thrown,     \* the error init() threw to its caller
    resolved,   \* outcome of the three tenant checks on one string
    filtered,   \* one application of addTenantFilter: sql, tenantId, out
    validated,  \* one application of validateNodeInputs: inputs, nodeType, result
    slots,      \* the invocations in flight when init() calls overlap
    globals,    \* the properties startup.js puts on `global`
    handled,    \* one request through the tenant-isolation middleware
    access      \* one call of validateTenantAccess, getTenantConfig or validateTenantConfig

vars ==
    <<pc, node, inputs, tenantId, request, attempts, reply, envelope, thrown, resolved,
      filtered, validated, slots, globals, handled, access>>

----------------------------------------------------------------------------
(* JavaScript values *)

JUndef == <<"undefined">>
JNull == <<"null", 0>>
JStr(s) == <<"str", s>>
JNum(n) == <<"num", n>>
JBool(b) == <<"bool", b>>
JArr(a) == <<"arr", a>>
JObj(f) == <<"obj", f>>

EmptyObj == [k \in {} |-> JUndef]

IsObj(v) == Len(v) = 2 /\ v[1] = "obj"

\* ToBoolean of a tagged value: undefined, null, "", 0 and false are falsy.
Truthy(v) ==
    /\ v # JUndef
    /\ v # JNull
    /\ v # JStr("")
    /\ v # JNum(0)
    /\ v # JBool(FALSE)

\* a || b
Or(a, b) == IF Truthy(a) THEN a ELSE b

\* the own enumerable properties that `...v` copies: those of an object,
\* none for null or undefined
Props(v) == IF IsObj(v) THEN v[2] ELSE EmptyObj

\* obj.key (undefined when the key is not an own property)
Get(f, k) == IF k \in DOMAIN f THEN f[k] ELSE JUndef

\* a merge that descends one level: where both sides hold an object under the
\* same key, the two objects' properties are merged instead of replaced
SpreadDeep(a, b) ==
    [k \in (DOMAIN a) \cup (DOMAIN b) |->
        IF k \notin DOMAIN b THEN a[k]
        ELSE IF k \in DOMAIN a /\ IsObj(a[k]) /\ IsObj(b[k])
        THEN JObj([j \in (DOMAIN a[k][2]) \cup (DOMAIN b[k][2]) |->
                    IF j \in DOMAIN b[k][2] THEN b[k][2][j] ELSE a[k][2][j]])
        ELSE b[k]]

\* { ...a, ...b } on property maps: b's value wins on every key it has, and
\* a value that is itself an object is copied as a whole (shallow)
Spread(a, b) ==
    [k \in (DOMAIN a) \cup (DOMAIN b) |-> IF k \in DOMAIN b THEN b[k] ELSE a[k]]

----------------------------------------------------------------------------
(* Character strings and the UUID checks *)

\* ToBoolean of a character string: undefined and "" are falsy
TruthyStr(s) == s # JUndef /\ s # <<>>

Digits == {"0", "1", "2", "3", "4", "5", "6", "7", "8", "9"}
LowerHex == {"a", "b", "c", "d", "e", "f"}
UpperHex == {"A", "B", "C", "D", "E", "F"}

UpperLetters ==
    << "A", "B", "C", "D", "E", "F", "G", "H", "I", "J", "K", "L", "M", "N",
       "O", "P", "Q", "R", "S", "T", "U", "V", "W", "X", "Y", "Z" >>
LowerLetters ==
    << "a", "b", "c", "d", "e", "f", "g", "h", "i", "j", "k", "l", "m", "n",
       "o", "p", "q", "r", "s", "t", "u", "v", "w", "x", "y", "z" >>

\* String.prototype.toLowerCase on one character
LowerChar(c) ==
    IF \E i \in 1..26 : UpperLetters[i] = c
    THEN LowerLetters[CHOOSE i \in 1..26 : UpperLetters[i] = c]
    ELSE c

toLowerCase(s) == [i \in 1..Len(s) |-> LowerChar(s[i])]

\* [0-9a-f] under the i flag
IsHex(c) == LowerChar(c) \in Digits \cup LowerHex

HyphenPos == {9, 14, 19, 24}

\* /^[0-9a-f]{8}-[0-9a-f]{4}-[1-5][0-9a-f]{3}-[89ab][0-9a-f]{3}-[0-9a-f]{12}$/i .test(s)
uuidRegexTest(s) ==
    /\ Len(s) = 36
    /\ \A i \in 1..36 : IF i \in HyphenPos THEN s[i] = "-" ELSE IsHex(s[i])
    /\ s[15] \in {"1", "2", "3", "4", "5"}
    /\ LowerChar(s[20]) \in {"8", "9", "a", "b"}

\* validate() of the npm package `uuid`, as imported by validation.js and
\* tenant-isolation.js: typeof s === 'string' and the package's pattern, which is
\* the pattern above or the nil UUID (releases 8.3 to 9.x; later major releases
\* accept still more strings, never fewer).
NilUuid ==
    << "0", "0", "0", "0", "0", "0", "0", "0", "-", "0", "0", "0",
       "0", "-", "0", "0", "0", "0", "-", "0", "0", "0", "0", "-",
       "0", "0", "0", "0", "0", "0", "0", "0", "0", "0", "0", "0" >>

uuidValidate(s) == s # JUndef /\ (uuidRegexTest(s) \/ s = NilUuid)

\* SMEFlowValidation.validateTenantId (the typeof branch is unreachable for a
\* string argument)
validateTenantId(s) ==
    IF ~TruthyStr(s)
    THEN [valid |-> FALSE, error |-> "Tenant ID is required for multi-tenant isolation",
          tenantId |-> JUndef]
    ELSE IF ~uuidValidate(s)
    THEN [valid |-> FALSE, error |-> "Tenant ID must be a valid UUID format",
          tenantId |-> JUndef]
    ELSE [valid |-> TRUE, error |-> "", tenantId |-> toLowerCase(s)]

\* The header check of TenantIsolationMiddleware.middleware(): the status of
\* the error response it sends, or 0 when it goes on to build req.tenant.
middlewareTenantCheck(s, requireTenantId) ==
    IF ~TruthyStr(s) /\ requireTenantId THEN 400
    ELSE IF TruthyStr(s) /\ ~uuidValidate(s) THEN 400
    ELSE 0

\* The check the Mentor, Supervisor, Workflow, African Integrations and Tenant
\* Manager nodes make before their try block: the message of the Error they
\* throw, or "" when the tenant id passes.
inlineTenantCheck(s, missingMessage) ==
    IF ~TruthyStr(s) THEN missingMessage
    ELSE IF ~uuidRegexTest(s) THEN "Tenant ID must be a valid UUID format"
    ELSE ""

----------------------------------------------------------------------------
(* JSON-typed input fields *)

\* A field holding JSON text is <<"text", v>>, v the value the text denotes;
\* BadJson is text that is no JSON ("{not json"); an absent field is JUndef and
\* an empty one JStr("").
JsonText(v) == <<"text", v>>
BadJson == <<"badtext", 0>>

\* JSON.parse(field || '{}'): ok is FALSE when JSON.parse throws a SyntaxError
ParseOrEmpty(field) ==
    IF ~Truthy(field) THEN [ok |-> TRUE, val |-> JObj(EmptyObj)]
    ELSE IF field[1] = "text" THEN [ok |-> TRUE, val |-> field[2]]
    ELSE [ok |-> FALSE, val |-> JUndef]

SyntaxErrorMessage == JStr("Unexpected token n in JSON at position 1")

----------------------------------------------------------------------------
(* What one invocation can end in, and the backend's replies *)

NoRequest == [url |-> "", headers |-> EmptyObj, body |-> EmptyObj, timeout |-> 0, built |-> FALSE]
NoEnvelope == EmptyObj
NoError == ""
NoReply == [kind |-> "none", status |-> 0, data |-> JUndef]

\* init() threw before its try block: the caller's promise rejects
Thrown(tid, message) ==
    [pc |-> "thrown", tenantId |-> tid, request |-> NoRequest,
     envelope |-> NoEnvelope, thrown |-> message, attempts |-> 0]

\* init() returned `env` without awaiting any outbound call
Returned(tid, req, env) ==
    [pc |-> "returned", tenantId |-> tid, request |-> req,
     envelope |-> env, thrown |-> NoError, attempts |-> 0]

\* init() called axios.post(req) and is suspended on the await
Pending(tid, req) ==
    [pc |-> "pending", tenantId |-> tid, request |-> req,
     envelope |-> NoEnvelope, thrown |-> NoError, attempts |-> 1]

\* the continuation of init() returned `env`
SettledReturn(env) == [pc |-> "returned", envelope |-> env, thrown |-> NoError]

\* the continuation of init() threw
SettledThrow(message) == [pc |-> "thrown", envelope |-> NoEnvelope, thrown |-> message]

\* The object axios.post rejects with: error.message and error.response?.status.
\* A non-2xx answer carries response.status; a network failure and a timeout
\* carry no response.
AxiosError(rep) ==
    CASE rep.kind = "status" ->
            [message |-> JStr("Request failed with status code"), status |-> JNum(rep.status)]
      [] rep.kind = "timeout" ->
            [message |-> JStr("timeout exceeded"), status |-> JUndef]
      [] OTHER ->
            [message |-> JStr("Network Error"), status |-> JUndef]

\* the errors the JavaScript runtime raises inside the try blocks
SyntaxError == [message |-> SyntaxErrorMessage, status |-> JUndef]
TypeError == [message |-> JStr("Cannot read properties of null"), status |-> JUndef]
ReferenceError(name) == [message |-> JStr(name), status |-> JUndef]

Now == JStr("new Date().toISOString()")
InstanceId == JStr("nodeData.instance.id")

\* headers built without the credential step
BuildHeadersNoBearer(tid, apiKey, extra) ==
    [k \in {"Content-Type", "X-Tenant-ID"} \cup DOMAIN extra |->
        IF k \in DOMAIN extra THEN extra[k]
        ELSE IF k = "X-Tenant-ID" THEN tid ELSE JStr("application/json")]

\* headers = { 'Content-Type': ..., 'X-Tenant-ID': tenantId, ...extra };
\* if (apiKey) headers['Authorization'] = `Bearer ${apiKey}`
BuildHeaders(tid, apiKey, extra) ==
    LET base == Spread(("Content-Type" :> JStr("application/json")) @@ ("X-Tenant-ID" :> tid),
                       extra)
    IN  IF Truthy(apiKey)
        THEN Spread(base, "Authorization" :> <<"Bearer", apiKey[2]>>)
        ELSE base

\* the trailer every node but the Agent puts after the spreads of its config
ExecutionTrailer ==
    ("source" :> JStr("flowise")) @@ ("workflow_id" :> InstanceId) @@ ("created_at" :> Now)

Languages4 == JArr(<<"en", "ha", "yo", "ig">>)
BusinessHoursLagos ==
    JObj([start |-> JStr("08:00"), end |-> JStr("18:00"), timezone |-> JStr("Africa/Lagos")])

----------------------------------------------------------------------------
(* SMEFlowAgent.init  (agents/SMEFlowAgent/SMEFlowAgent.js) *)

AgentCatch(tid, error) ==
    [success |-> JBool(FALSE), error |-> error.message, tenant_id |-> tid, timestamp |-> Now]

AgentRequestConfig(config, tid) ==
    Spread(Props(config),
           ("tenant_id" :> tid)
        @@ ("region" :> Or(Get(Props(config), "region"), JStr("africa-west")))
        @@ ("currency" :> Or(Get(Props(config), "currency"), JStr("NGN")))
        @@ ("timezone" :> Or(Get(Props(config), "timezone"), JStr("Africa/Lagos")))
        @@ ("languages" :> Or(Get(Props(config), "languages"), Languages4)))

SMEFlowAgent_init(in) ==
    LET tid == in.tenantId
        config == ParseOrEmpty(in.agentConfig)
    IN  IF ~TruthyStr(tid)
        THEN Thrown(tid, "Tenant ID is required for multi-tenant isolation")
        ELSE IF ~config.ok
        THEN Returned(tid, NoRequest, AgentCatch(tid, SyntaxError))
        ELSE IF config.val = JNull
        THEN \* config.region on null
             Returned(tid, NoRequest, AgentCatch(tid, TypeError))
        ELSE Pending(tid,
                [url |-> "/api/v1/agents/execute",
                 headers |-> BuildHeaders(tid, in.apiKey, EmptyObj),
                 body |-> [config |-> JObj(AgentRequestConfig(config.val, tid))],
                 timeout |-> 30000, built |-> TRUE])

SMEFlowAgent_settle(in, tid, rep) ==
    IF rep.kind # "ok"
    THEN SettledReturn(AgentCatch(tid, AxiosError(rep)))
    ELSE IF rep.data = JNull
    THEN SettledReturn(AgentCatch(tid, TypeError))
    ELSE SettledReturn(
            [success |-> JBool(TRUE),
             cost_usd |-> Get(Props(rep.data), "cost_usd"),
             tokens_used |-> Get(Props(rep.data), "tokens_used"),
             tenant_id |-> tid])

----------------------------------------------------------------------------
(* SMEFlowMentor_Agents.init  (agents/SMEFlowMentor/SMEFlowMentor.js) *)

MentorDefaultMarketConfig ==
    [region |-> JStr("africa-west"), currency |-> JStr("NGN"),
     timezone |-> JStr("Africa/Lagos"), languages |-> Languages4,
     market_focus |-> JStr("urban"),
     business_environment |->
        JObj([infrastructure |-> JStr("developing"), digital_adoption |-> JStr("growing"),
              regulatory_complexity |-> JStr("moderate")]),
     cultural_context |->
        JObj([business_relationships |-> JStr("relationship_focused"),
              decision_making |-> JStr("consensus_driven"),
              communication_style |-> JStr("respectful")])]

MentorFinalMarketConfig(in) ==
    Spread(MentorDefaultMarketConfig, Props(ParseOrEmpty(in.marketConfig).val))

MentorCatch(tid, error) ==
    [success |-> JBool(FALSE), error |-> error.message,
     error_code |-> Or(error.status, JStr("UNKNOWN")),
     tenant_id |-> tid, timestamp |-> Now]

SMEFlowMentor_init(in) ==
    LET tid == in.tenantId
        missing == "Tenant ID is required for multi-tenant isolation"
        context == ParseOrEmpty(in.businessContext)
        africanMarketConfig == ParseOrEmpty(in.marketConfig)
    IN  IF inlineTenantCheck(tid, missing) = missing
        THEN Thrown(tid, missing)
        ELSE IF ~Truthy(in.question)
        THEN Thrown(tid, "Question/Challenge is required for mentor guidance")
        ELSE IF inlineTenantCheck(tid, missing) # ""
        THEN Thrown(tid, inlineTenantCheck(tid, missing))
        ELSE IF ~context.ok \/ ~africanMarketConfig.ok
        THEN Returned(tid, NoRequest, MentorCatch(tid, SyntaxError))
        ELSE Pending(tid,
                [url |-> "/api/v1/mentor/guidance",
                 headers |-> BuildHeaders(tid, in.apiKey, EmptyObj),
                 body |-> [business_context |->
                            JObj(Spread(Spread(Props(context.val), MentorFinalMarketConfig(in)),
                                        ExecutionTrailer))],
                 timeout |-> 120000, built |-> TRUE])

SMEFlowMentor_settle(in, tid, rep) ==
    IF rep.kind # "ok"
    THEN SettledReturn(MentorCatch(tid, AxiosError(rep)))
    ELSE IF rep.data = JNull
    THEN SettledReturn(MentorCatch(tid, TypeError))
    ELSE SettledReturn(
            [success |-> JBool(TRUE),
             cost_usd |-> Get(Props(rep.data), "cost_usd"),
             tokens_used |-> Get(Props(rep.data), "tokens_used"),
             tenant_id |-> tid,
             market_config |-> JObj(MentorFinalMarketConfig(in)),
             timestamp |-> Now])

----------------------------------------------------------------------------
(* SMEFlowAutomator_Agents.init  (agents/SMEFlowAutomator/SMEFlowAutomator.js) *)

\* The tenant id the Automator and the Workflow Executor go on with:
\*   tenantManager = inputs.tenantManager || input
\*   if (tenantManager && tenantManager.tenant_id) tenantId = tenantManager.tenant_id
\*   else if (input && input.tenant_id) tenantId = input.tenant_id
AdoptTenant(in) ==
    LET tenantManager == Or(in.tenantManager, in.input)
    IN  IF Truthy(tenantManager) /\ TruthyStr(Get(Props(tenantManager), "tenant_id"))
        THEN Get(Props(tenantManager), "tenant_id")
        ELSE IF Truthy(in.input) /\ TruthyStr(Get(Props(in.input), "tenant_id"))
        THEN Get(Props(in.input), "tenant_id")
        ELSE in.tenantId

\* defaultMarketConfig of the Automator, the Workflow Executor and the Tenant Manager
DefaultMarketConfig ==
    [region |-> JStr("africa-west"), currency |-> JStr("NGN"),
     timezone |-> JStr("Africa/Lagos"), languages |-> Languages4,
     phone_format |-> JStr("+234"), business_hours |-> BusinessHoursLagos]

AutomatorFinalMarketConfig(in) ==
    Spread(DefaultMarketConfig, Props(ParseOrEmpty(in.marketConfig).val))

AutomatorCatch(tid, error) ==
    [success |-> JBool(FALSE), error |-> error.message, tenant_id |-> tid, timestamp |-> Now]

SMEFlowAutomator_init(in) ==
    LET tid == AdoptTenant(in)
        config == ParseOrEmpty(in.taskConfig)
        data == ParseOrEmpty(in.inputData)
        africanMarketConfig == ParseOrEmpty(in.marketConfig)
    IN  IF ~TruthyStr(tid)
        THEN Thrown(tid, "Tenant ID is required for multi-tenant isolation")
        ELSE IF ~config.ok \/ ~data.ok \/ ~africanMarketConfig.ok
        THEN Returned(tid, NoRequest, AutomatorCatch(tid, SyntaxError))
        ELSE \* automationRequest and headers are built and never sent
             Returned(tid,
                [url |-> "",
                 headers |-> BuildHeaders(tid, in.apiKey, EmptyObj),
                 body |-> [config |->
                            JObj(Spread(Spread(Props(config.val), AutomatorFinalMarketConfig(in)),
                                        ExecutionTrailer)),
                           execution_options |->
                            JObj([timeout |-> JNum(120), retry_on_failure |-> JBool(TRUE),
                                  max_retries |-> JNum(3)])],
                 timeout |-> 0, built |-> TRUE],
                [success |-> JBool(TRUE), cost_usd |-> <<"dec", "0.05">>,
                 tenant_id |-> tid,
                 market_config |-> JObj(AutomatorFinalMarketConfig(in))])

----------------------------------------------------------------------------
(* SMEFlowAutomator.init  (agents/SMEFlowAutomator/SMEFlowAutomator.ts) *)

AutomatorTSDefaultMarketSettings ==
    [region |-> JStr("nigeria"), currency |-> JStr("NGN"),
     timezone |-> JStr("Africa/Lagos"), languages |-> Languages4,
     phone_format |-> JStr("+234"), business_hours |-> BusinessHoursLagos,
     payment_methods |-> JArr(<<"mpesa", "paystack", "flutterwave">>),
     local_apis |->
        JObj([sms_gateway |-> JStr("africas_talking"), payment_gateway |-> JStr("paystack"),
              bank_verification |-> JStr("mono")])]

AutomatorTSFinalMarketSettings(in) ==
    Spread(AutomatorTSDefaultMarketSettings, Props(ParseOrEmpty(in.marketSettings).val))

AutomatorTSDefaultRetry ==
    [max_retries |-> JNum(3), retry_delay |-> JNum(5), exponential_backoff |-> JBool(TRUE),
     retry_on_status |-> JArr(<<500, 502, 503, 504, 429>>)]

AutomatorTSFinalRetry(in) ==
    Spread(AutomatorTSDefaultRetry, Props(ParseOrEmpty(in.retryConfig).val))

\* finalMarketSettings.payment_methods.includes(...) and
\* finalMarketSettings.local_apis.sms_gateway raise a TypeError when an override
\* replaced payment_methods by a value without includes or local_apis by null
AutomatorTSToolsThrow(final) ==
    \/ final["payment_methods"][1] \notin {"arr", "str"}
    \/ final["local_apis"] = JNull

AutomatorTSCatch(tid, error) ==
    [success |-> JBool(FALSE), error |-> error.message, error_code |-> error.status,
     tenant_id |-> tid, timestamp |-> Now]

SMEFlowAutomatorTS_init(in) ==
    LET tid == in.tenantId
        config == ParseOrEmpty(in.taskConfig)
        input == ParseOrEmpty(in.inputData)
        africanMarketSettings == ParseOrEmpty(in.marketSettings)
        tools == ParseOrEmpty(in.toolsConfig)
        retry == ParseOrEmpty(in.retryConfig)
    IN  IF ~TruthyStr(tid)
        THEN Thrown(tid, "Tenant ID is required for multi-tenant isolation")
        ELSE IF ~config.ok \/ ~input.ok \/ ~africanMarketSettings.ok \/ ~tools.ok \/ ~retry.ok
        THEN Returned(tid, NoRequest, AutomatorTSCatch(tid, SyntaxError))
        ELSE IF AutomatorTSToolsThrow(AutomatorTSFinalMarketSettings(in))
        THEN Returned(tid, NoRequest, AutomatorTSCatch(tid, TypeError))
        ELSE Pending(tid,
                [url |-> "/api/v1/agents/automator/execute",
                 headers |-> BuildHeaders(tid, in.apiKey, "X-Agent-Type" :> JStr("automator")),
                 body |-> [config |->
                            JObj(Spread(Props(config.val),
                                   ("tenant_id" :> tid)
                                @@ ("market_settings" :> JObj(AutomatorTSFinalMarketSettings(in)))
                                @@ ("retry_config" :> JObj(AutomatorTSFinalRetry(in)))))],
                 timeout |-> 60000, built |-> TRUE])

SMEFlowAutomatorTS_settle(in, tid, rep) ==
    IF rep.kind # "ok"
    THEN SettledReturn(AutomatorTSCatch(tid, AxiosError(rep)))
    ELSE IF rep.data = JNull
    THEN SettledReturn(AutomatorTSCatch(tid, TypeError))
    ELSE SettledReturn(
            [success |-> JBool(TRUE),
             cost_usd |-> Get(Props(rep.data), "cost_usd"),
             tokens_used |-> Get(Props(rep.data), "tokens_used"),
             tenant_id |-> tid,
             market_settings |-> JObj(AutomatorTSFinalMarketSettings(in)),
             timestamp |-> Now])

----------------------------------------------------------------------------
(* SMEFlowSupervisor_Agents.init  (agents/SMEFlowSupervisor/SMEFlowSupervisor.js) *)

SupervisorDefaultMarketConfig ==
    [region |-> JStr("africa-west"), currency |-> JStr("NGN"),
     timezone |-> JStr("Africa/Lagos"), languages |-> Languages4,
     business_hours |-> BusinessHoursLagos,
     escalation_preferences |->
        JObj([human_review_hours |-> JStr("08:00-17:00"),
              auto_escalate_after_hours |-> JBool(TRUE),
              cultural_sensitivity |-> JStr("high")])]

SupervisorFinalMarketConfig(in) ==
    Spread(SupervisorDefaultMarketConfig, Props(ParseOrEmpty(in.marketConfig).val))

SupervisorDefaultEscalation ==
    [auto_escalate |-> JBool(TRUE), escalation_threshold |-> <<"dec", "0.8">>,
     human_review_required |-> JBool(FALSE), max_auto_retries |-> JNum(3)]

SupervisorCatch(tid, error) ==
    [success |-> JBool(FALSE), error |-> error.message,
     error_code |-> Or(error.status, JStr("UNKNOWN")),
     tenant_id |-> tid, escalation_required |-> JBool(TRUE), timestamp |-> Now]

SMEFlowSupervisor_init(in) ==
    LET tid == in.tenantId
        missing == "Tenant ID is required for multi-tenant isolation"
        config == ParseOrEmpty(in.workflowConfig)
        context == ParseOrEmpty(in.supervisionContext)
        thresholds == ParseOrEmpty(in.qualityThresholds)
        escalation == ParseOrEmpty(in.escalationRules)
        africanMarketConfig == ParseOrEmpty(in.marketConfig)
    IN  IF inlineTenantCheck(tid, missing) = missing
        THEN Thrown(tid, missing)
        ELSE IF ~Truthy(in.workflowConfig)
        THEN Thrown(tid, "Workflow Configuration is required for supervision")
        ELSE IF inlineTenantCheck(tid, missing) # ""
        THEN Thrown(tid, inlineTenantCheck(tid, missing))
        ELSE IF ~config.ok \/ ~context.ok \/ ~thresholds.ok \/ ~escalation.ok
                \/ ~africanMarketConfig.ok
        THEN Returned(tid, NoRequest, SupervisorCatch(tid, SyntaxError))
        ELSE Pending(tid,
                [url |-> "/api/v1/supervisor/execute",
                 headers |-> BuildHeaders(tid, in.apiKey, EmptyObj),
                 body |-> [workflow_config |->
                            JObj(Spread(Spread(Props(config.val), SupervisorFinalMarketConfig(in)),
                                        ExecutionTrailer)),
                           escalation_rules |->
                            JObj(Spread(SupervisorDefaultEscalation, Props(escalation.val))),
                           execution_options |->
                            JObj([timeout |-> JNum(300), retry_on_failure |-> JBool(TRUE),
                                  max_retries |-> JNum(3)])],
                 timeout |-> 300000, built |-> TRUE])

SMEFlowSupervisor_settle(in, tid, rep) ==
    IF rep.kind # "ok"
    THEN SettledReturn(SupervisorCatch(tid, AxiosError(rep)))
    ELSE IF rep.data = JNull
    THEN SettledReturn(SupervisorCatch(tid, TypeError))
    ELSE SettledReturn(
            [success |-> JBool(TRUE),
             cost_usd |-> Get(Props(rep.data), "cost_usd"),
             tenant_id |-> tid,
             market_config |-> JObj(SupervisorFinalMarketConfig(in)),
             timestamp |-> Now])

----------------------------------------------------------------------------
(* SMEFlowWorkflow_Chains.init  (chains/SMEFlowWorkflow/SMEFlowWorkflow.js) *)

WorkflowDefaultMarketConfig ==
    [region |-> JStr("africa-west"), currency |-> JStr("NGN"),
     timezone |-> JStr("Africa/Lagos"), languages |-> Languages4,
     phone_format |-> JStr("+234"), business_hours |-> BusinessHoursLagos,
     payment_methods |-> JArr(<<"paystack", "flutterwave", "bank_transfer">>),
     cultural_context |->
        JObj([greeting_style |-> JStr("formal"), business_etiquette |-> JStr("respectful"),
              communication_preference |-> JStr("direct")])]

WorkflowFinalMarketConfig(in) ==
    Spread(WorkflowDefaultMarketConfig, Props(ParseOrEmpty(in.marketConfig).val))

WorkflowDefaultWorkflowConfig ==
    [async |-> JBool(FALSE), timeout |-> JNum(300), retry_on_failure |-> JBool(TRUE),
     max_retries |-> JNum(3), self_healing |-> JBool(TRUE), checkpoint_enabled |-> JBool(TRUE)]

WorkflowFinalWorkflowConfig(in) ==
    Spread(WorkflowDefaultWorkflowConfig, Props(ParseOrEmpty(in.workflowConfig).val))

\* (finalWorkflowConfig.timeout + 60) * 1000 for a numeric timeout
WorkflowTimeout(in) == (WorkflowFinalWorkflowConfig(in)["timeout"][2] + 60) * 1000

WorkflowCatch(tid, error) ==
    [success |-> JBool(FALSE), error |-> error.message,
     error_code |-> Or(error.status, JStr("UNKNOWN")),
     tenant_id |-> tid, timestamp |-> Now]

SMEFlowWorkflow_init(in) ==
    LET tid == in.tenantId
        missing == "Tenant ID is required for multi-tenant isolation"
        inputData == ParseOrEmpty(in.workflowData)
        config == ParseOrEmpty(in.workflowConfig)
        africanMarketConfig == ParseOrEmpty(in.marketConfig)
        industry == ParseOrEmpty(in.industryContext)
    IN  IF inlineTenantCheck(tid, missing) = missing
        THEN Thrown(tid, missing)
        ELSE IF ~Truthy(in.workflowData)
        THEN Thrown(tid, "Workflow Input Data is required for workflow execution")
        ELSE IF inlineTenantCheck(tid, missing) # ""
        THEN Thrown(tid, inlineTenantCheck(tid, missing))
        ELSE IF ~inputData.ok \/ ~config.ok \/ ~africanMarketConfig.ok \/ ~industry.ok
        THEN Returned(tid, NoRequest, WorkflowCatch(tid, SyntaxError))
        ELSE Pending(tid,
                [url |-> "/api/v1/workflows/execute",
                 headers |-> BuildHeaders(tid, in.apiKey, EmptyObj),
                 body |-> [config |->
                            JObj(Spread(Spread(WorkflowFinalMarketConfig(in), Props(industry.val)),
                                        ExecutionTrailer)),
                           execution_options |-> JObj(WorkflowFinalWorkflowConfig(in))],
                 timeout |-> WorkflowTimeout(in), built |-> TRUE])

SMEFlowWorkflow_settle(in, tid, rep) ==
    IF rep.kind # "ok"
    THEN SettledReturn(WorkflowCatch(tid, AxiosError(rep)))
    ELSE IF rep.data = JNull
    THEN SettledReturn(WorkflowCatch(tid, TypeError))
    ELSE SettledReturn(
            [success |-> JBool(TRUE),
             cost_usd |-> Get(Props(rep.data), "cost_usd"),
             tokens_used |-> Get(Props(rep.data), "tokens_used"),
             tenant_id |-> tid,
             market_config |-> JObj(WorkflowFinalMarketConfig(in)),
             timestamp |-> Now])

----------------------------------------------------------------------------
(* SMEFlowWorkflowExecutor_Workflows.init
   (workflows/SMEFlowWorkflowExecutor/SMEFlowWorkflowExecutor.js) *)

ExecutorFinalMarketConfig(in) ==
    Spread(DefaultMarketConfig, Props(ParseOrEmpty(in.marketConfig).val))

\* the inner catch: "Enhanced fallback with workflow simulation"
ExecutorFallback(in, tid, apiError) ==
    [success |-> JBool(TRUE),
     total_cost_usd |-> <<"dec", "0.10">>, tokens_used |-> JNum(150),
     tenant_id |-> tid,
     market_config |-> JObj(ExecutorFinalMarketConfig(in)),
     fallback_mode |-> JBool(TRUE), fallback_reason |-> apiError.message]

SMEFlowWorkflowExecutor_init(in) ==
    LET tid == AdoptTenant(in)
        parsedInputData == ParseOrEmpty(in.inputData)
        parsedContext == ParseOrEmpty(in.workflowContext)
        parsedMarketConfig == ParseOrEmpty(in.marketConfig)
        parsedBusinessRules == ParseOrEmpty(in.businessRules)
    IN  IF ~TruthyStr(tid)
        THEN Thrown(tid, "Tenant ID is required for multi-tenant workflow execution")
        ELSE IF ~parsedInputData.ok \/ ~parsedContext.ok \/ ~parsedMarketConfig.ok
                \/ ~parsedBusinessRules.ok
        THEN \* the outer catch evaluates `apiEndpoint || 'undefined'`, and
             \* apiEndpoint is declared by `let` inside the try block: the
             \* catch block raises a ReferenceError out of init()
             Thrown(tid, "ReferenceError: apiEndpoint is not defined")
        ELSE Pending(tid,
                [url |-> "/langgraph/templates/consulting",
                 headers |-> BuildHeaders(tid, in.apiKey, EmptyObj),
                 body |-> [context |->
                            JObj(Spread(Props(parsedContext.val),
                                   ("source" :> JStr("flowise"))
                                @@ ("workflow_id" :> InstanceId)
                                @@ ("market_config" :> JObj(ExecutorFinalMarketConfig(in)))
                                @@ ("business_rules" :> parsedBusinessRules.val)
                                @@ ("created_at" :> Now))),
                           execution_options |->
                            JObj([timeout |-> JNum(300), retry_on_failure |-> JBool(TRUE),
                                  max_retries |-> JNum(2)])],
                 \* axios.post(apiEndpoint, workflowRequest, { headers }): no timeout
                 timeout |-> 0, built |-> TRUE])

SMEFlowWorkflowExecutor_settle(in, tid, rep) ==
    IF rep.kind # "ok"
    THEN SettledReturn(ExecutorFallback(in, tid, AxiosError(rep)))
    ELSE IF rep.data = JNull
    THEN SettledReturn(ExecutorFallback(in, tid, TypeError))
    ELSE SettledReturn(
            [success |-> JBool(Get(Props(rep.data), "success") # JBool(FALSE)),
             total_cost_usd |-> Or(Get(Props(rep.data), "total_cost_usd"), <<"dec", "0.10">>),
             tokens_used |-> Or(Get(Props(rep.data), "tokens_used"), JNum(0)),
             tenant_id |-> tid,
             market_config |-> JObj(ExecutorFinalMarketConfig(in))])

----------------------------------------------------------------------------
(* SMEFlowAfricanIntegrations_Tools.init
   (tools/SMEFlowAfricanIntegrations/SMEFlowAfricanIntegrations.js) *)

countryDefaults ==
    [nigeria |->
        [currency |-> JStr("NGN"), language |-> JStr("en"), timezone |-> JStr("Africa/Lagos"),
         phone_format |-> JStr("+234"),
         payment_methods |-> JArr(<<"paystack", "flutterwave", "bank_transfer">>)],
     kenya |->
        [currency |-> JStr("KES"), language |-> JStr("sw"), timezone |-> JStr("Africa/Nairobi"),
         phone_format |-> JStr("+254"),
         payment_methods |-> JArr(<<"mpesa", "paystack", "bank_transfer">>)],
     south_africa |->
        [currency |-> JStr("ZAR"), language |-> JStr("en"),
         timezone |-> JStr("Africa/Johannesburg"), phone_format |-> JStr("+27"),
         payment_methods |-> JArr(<<"paystack", "ozow", "bank_transfer">>)],
     ghana |->
        [currency |-> JStr("GHS"), language |-> JStr("en"), timezone |-> JStr("Africa/Accra"),
         phone_format |-> JStr("+233"),
         payment_methods |-> JArr(<<"paystack", "flutterwave", "mtn_mobile_money">>)]]

\* const country = inputs.country || 'nigeria'
IntegrationsCountry(in) == Or(in.country, JStr("nigeria"))

\* countryDefaults[country] || countryDefaults.nigeria
IntegrationsDefaultLocalization(in) ==
    IF IntegrationsCountry(in)[2] \in DOMAIN countryDefaults
    THEN countryDefaults[IntegrationsCountry(in)[2]]
    ELSE countryDefaults["nigeria"]

IntegrationsFinalLocalization(in) ==
    Spread(IntegrationsDefaultLocalization(in), Props(ParseOrEmpty(in.marketLocalization).val))

\*   if (tenantManager && tenantManager.success) tenantId = tenantManager.tenant_id
\*   if (smeflowAgent && smeflowAgent.success) tenantId = tenantId || smeflowAgent.tenant_id
IntegrationsTenant(in) ==
    LET afterManager ==
            IF Truthy(in.tenantManager) /\ Truthy(Get(Props(in.tenantManager), "success"))
            THEN Get(Props(in.tenantManager), "tenant_id")
            ELSE in.tenantId
    IN  IF Truthy(in.smeflowAgent) /\ Truthy(Get(Props(in.smeflowAgent), "success"))
           /\ ~TruthyStr(afterManager)
        THEN Get(Props(in.smeflowAgent), "tenant_id")
        ELSE afterManager

IntegrationsCatch(tid, error) ==
    [success |-> JBool(FALSE), error |-> error.message,
     error_code |-> Or(error.status, JStr("UNKNOWN")),
     tenant_id |-> tid, timestamp |-> Now]

SMEFlowAfricanIntegrations_init(in) ==
    LET tid == IntegrationsTenant(in)
        missing == "Tenant ID is required for multi-tenant isolation"
        config == ParseOrEmpty(in.integrationConfig)
        data == ParseOrEmpty(in.requestData)
        localization == ParseOrEmpty(in.marketLocalization)
        compliance == ParseOrEmpty(in.complianceSettings)
    IN  IF inlineTenantCheck(tid, missing) = missing
        THEN Thrown(tid, missing)
        ELSE IF ~Truthy(in.integrationConfig)
        THEN Thrown(tid, "Integration Configuration is required")
        ELSE IF ~Truthy(in.requestData)
        THEN Thrown(tid, "Transaction/Request Data is required")
        ELSE IF inlineTenantCheck(tid, missing) # ""
        THEN Thrown(tid, inlineTenantCheck(tid, missing))
        ELSE IF ~config.ok \/ ~data.ok \/ ~localization.ok \/ ~compliance.ok
        THEN Returned(tid, NoRequest, IntegrationsCatch(tid, SyntaxError))
        ELSE Pending(tid,
                [url |-> "/api/v1/integrations/african-markets/execute",
                 headers |-> BuildHeaders(tid, in.apiKey,
                                ("X-Country" :> IntegrationsCountry(in))
                             @@ ("X-Integration-Type" :> JStr("mpesa_payment"))),
                 body |-> [config |->
                            JObj(Spread(Spread(Props(config.val), IntegrationsFinalLocalization(in)),
                                        ExecutionTrailer)),
                           execution_options |->
                            JObj([timeout |-> JNum(120), retry_on_failure |-> JBool(TRUE),
                                  max_retries |-> JNum(3)])],
                 timeout |-> 120000, built |-> TRUE])

SMEFlowAfricanIntegrations_settle(in, tid, rep) ==
    IF rep.kind # "ok"
    THEN SettledReturn(IntegrationsCatch(tid, AxiosError(rep)))
    ELSE IF rep.data = JNull
    THEN SettledReturn(IntegrationsCatch(tid, TypeError))
    ELSE SettledReturn(
            [success |-> JBool(TRUE),
             cost_usd |-> Get(Props(rep.data), "cost_usd"),
             tenant_id |-> tid,
             market_config |-> JObj(IntegrationsFinalLocalization(in)),
             timestamp |-> Now])

----------------------------------------------------------------------------
(* SMEFlowTenantManager_Utilities.init
   (utilities/SMEFlowTenantManager/SMEFlowTenantManager.js) *)

TenantManagerCatch(tid, error) ==
    [success |-> JBool(FALSE), tenant_id |-> tid, error |-> error.message,
     error_code |-> Or(error.status, JStr("UNKNOWN")), timestamp |-> Now]

SMEFlowTenantManager_init(in) ==
    LET tid == in.tenantId
        missing == "Tenant ID is required for all tenant operations"
        config == ParseOrEmpty(in.tenantConfig)
    IN  IF inlineTenantCheck(tid, missing) # ""
        THEN Thrown(tid, inlineTenantCheck(tid, missing))
        ELSE IF ~config.ok
        THEN Returned(tid, NoRequest, TenantManagerCatch(tid, SyntaxError))
        ELSE \* JSON.parse(marketConfig || '{}'): init() declares marketSettings,
             \* no marketConfig is in scope, and the read raises a
             \* ReferenceError that the catch block turns into an envelope
             Returned(tid, NoRequest,
                      TenantManagerCatch(tid, ReferenceError("marketConfig is not defined")))

----------------------------------------------------------------------------
(* The inputs an invocation is started with *)

T1 ==
    << "5", "5", "0", "e", "8", "4", "0", "0", "-", "e", "2", "9",
       "b", "-", "4", "1", "d", "4", "-", "a", "7", "1", "6", "-",
       "4", "4", "6", "6", "5", "5", "4", "4", "0", "0", "0", "0" >>
T2 ==
    << "6", "B", "A", "7", "B", "8", "1", "0", "-", "9", "D", "A",
       "D", "-", "1", "1", "D", "1", "-", "8", "0", "B", "4", "-",
       "0", "0", "C", "0", "4", "F", "D", "4", "3", "0", "C", "8" >>
NotUuid == << "a", "c", "m", "e" >>

TenantIds == {JUndef, <<>>, T1, T2, NotUuid, NilUuid}
ApiKeys == {JUndef, JStr(""), JStr("sk-smeflow-0123456789")}

\* caller-supplied configuration blobs (taskConfig, agentConfig, ...)
CallerConfigs ==
    {JUndef, BadJson,
     JsonText(JObj([currency |-> JStr("KES"), endpoint |-> JStr("https://erp.example/api")])),
     JsonText(JObj([region |-> JStr(""), business_hours |-> JObj([start |-> JStr("09:00")])])),
     JsonText(JNull)}

\* caller-supplied market overrides (marketConfig, marketSettings, marketLocalization)
MarketOverrides ==
    {JUndef, BadJson,
     JsonText(JObj([region |-> JStr("kenya"), currency |-> JStr("KES")])),
     JsonText(JObj([region |-> JStr("atlantis"),
                    business_hours |-> JObj([start |-> JStr("10:00")])]))}

\* the other JSON-typed fields
OptionalJson == {JUndef, BadJson}
RequiredJson == {JUndef, BadJson, JsonText(JObj([amount |-> JNum(1500)]))}
IndustryContexts == {JUndef, BadJson, JsonText(JObj([currency |-> JStr("USD")]))}
WorkflowConfigs == {JUndef, BadJson, JsonText(JObj([max_retries |-> JNum(1)]))}
RetryConfigs == {JUndef, BadJson, JsonText(JObj([max_retries |-> JNum(2)]))}

Questions == {JUndef, JStr(""), JStr("How should I price my services?")}
Countries == {JUndef, JStr("kenya"), JStr("atlantis")}

\* the output of a connected node, as the downstream node receives it
ConnectedOutputs ==
    {JUndef,
     JObj([success |-> JBool(TRUE), tenant_id |-> T2]),
     JObj([success |-> JBool(FALSE), tenant_id |-> T2])}
ChainInputs == {JUndef, JObj([tenant_id |-> T2])}

BlankInputs ==
    [tenantId |-> JUndef, apiKey |-> JUndef, agentConfig |-> JUndef, taskConfig |-> JUndef,
     inputData |-> JUndef, marketConfig |-> JUndef, marketSettings |-> JUndef,
     toolsConfig |-> JUndef, retryConfig |-> JUndef, businessContext |-> JUndef,
     question |-> JUndef, workflowConfig |-> JUndef, supervisionContext |-> JUndef,
     qualityThresholds |-> JUndef, escalationRules |-> JUndef, workflowData |-> JUndef,
     industryContext |-> JUndef, workflowContext |-> JUndef, businessRules |-> JUndef,
     integrationConfig |-> JUndef, requestData |-> JUndef, marketLocalization |-> JUndef,
     complianceSettings |-> JUndef, country |-> JUndef, tenantManager |-> JUndef,
     smeflowAgent |-> JUndef, input |-> JUndef, tenantConfig |-> JUndef]

AgentInputs ==
    {[BlankInputs EXCEPT !.tenantId = t, !.apiKey = k, !.agentConfig = c] :
        t \in TenantIds, k \in ApiKeys, c \in CallerConfigs}

AutomatorInputs ==
    {[BlankInputs EXCEPT !.tenantId = t, !.apiKey = k, !.taskConfig = c, !.inputData = d,
                         !.marketConfig = m, !.tenantManager = tm, !.input = i] :
        t \in TenantIds, k \in ApiKeys, c \in CallerConfigs, d \in OptionalJson,
        m \in MarketOverrides, tm \in ConnectedOutputs, i \in ChainInputs}

AutomatorTSInputs ==
    {[BlankInputs EXCEPT !.tenantId = t, !.apiKey = k, !.taskConfig = c, !.inputData = d,
                         !.marketSettings = m, !.retryConfig = r] :
        t \in TenantIds, k \in ApiKeys, c \in CallerConfigs, d \in OptionalJson,
        m \in MarketOverrides, r \in RetryConfigs}

MentorInputs ==
    {[BlankInputs EXCEPT !.tenantId = t, !.apiKey = k, !.businessContext = c, !.question = q,
                         !.marketConfig = m] :
        t \in TenantIds, k \in ApiKeys, c \in CallerConfigs, q \in Questions,
        m \in MarketOverrides}

SupervisorInputs ==
    {[BlankInputs EXCEPT !.tenantId = t, !.apiKey = k, !.workflowConfig = c,
                         !.supervisionContext = x, !.escalationRules = e, !.marketConfig = m] :
        t \in TenantIds, k \in ApiKeys, c \in CallerConfigs, x \in OptionalJson,
        e \in RetryConfigs, m \in MarketOverrides}

WorkflowInputs ==
    {[BlankInputs EXCEPT !.tenantId = t, !.apiKey = k, !.workflowData = d, !.workflowConfig = c,
                         !.marketConfig = m, !.industryContext = x] :
        t \in TenantIds, k \in ApiKeys, d \in RequiredJson, c \in WorkflowConfigs,
        m \in MarketOverrides, x \in IndustryContexts}

WorkflowExecutorInputs ==
    {[BlankInputs EXCEPT !.tenantId = t, !.apiKey = k, !.inputData = d, !.workflowContext = c,
                         !.marketConfig = m, !.tenantManager = tm, !.input = i] :
        t \in TenantIds, k \in ApiKeys, d \in OptionalJson, c \in CallerConfigs,
        m \in MarketOverrides, tm \in ConnectedOutputs, i \in ChainInputs}

AfricanIntegrationsInputs ==
    {[BlankInputs EXCEPT !.tenantId = t, !.apiKey = k, !.integrationConfig = c,
                         !.requestData = d, !.marketLocalization = m, !.country = y,
                         !.tenantManager = tm, !.smeflowAgent = a] :
        t \in TenantIds, k \in ApiKeys, c \in CallerConfigs, d \in RequiredJson,
        m \in MarketOverrides, y \in Countries, tm \in ConnectedOutputs,
        a \in {JUndef, JObj([success |-> JBool(TRUE), tenant_id |-> T1])}}

TenantManagerInputs ==
    {[BlankInputs EXCEPT !.tenantId = t, !.apiKey = k, !.tenantConfig = c, !.marketSettings = m] :
        t \in TenantIds, k \in ApiKeys, c \in CallerConfigs, m \in MarketOverrides}

\* How an axios.post of `req` can settle: a 2xx answer with a body, a non-2xx
\* answer, a network failure, and, when the request carries a timeout, its expiry.
BackendBodies ==
    {JObj(EmptyObj),
     JObj([success |-> JBool(FALSE)]),
     JObj([cost_usd |-> JNum(0), total_cost_usd |-> JNum(0), tokens_used |-> JNum(0)]),
     JObj([cost_usd |-> JNum(7), total_cost_usd |-> JNum(7), tokens_used |-> JNum(420)]),
     JNull}

ErrorStatuses == {400, 404, 429, 500, 503}

Replies(req) ==
    {[kind |-> "ok", status |-> 200, data |-> b] : b \in BackendBodies}
    \cup {[kind |-> "status", status |-> c, data |-> JUndef] : c \in ErrorStatuses}
    \cup {[kind |-> "network", status |-> 0, data |-> JUndef]}
    \cup (IF req.timeout > 0
          THEN {[kind |-> "timeout", status |-> 0, data |-> JUndef]}
          ELSE {})

----------------------------------------------------------------------------
(* The state machine *)

NoCheck == [s |-> JUndef, validator |-> FALSE, middleware |-> FALSE, inline |-> FALSE]

\* addTenantFilter and validateNodeInputs not applied yet
NoFilter ==
    [sql |-> <<>>, tenantId |-> JUndef, out |-> <<>>, applied |-> FALSE, via |-> ""]
NoValidation ==
    [inputs |-> BlankInputs, nodeType |-> "", valid |-> TRUE, errors |-> <<>>, applied |-> FALSE,
     init |-> [pc |-> "idle", thrown |-> NoError, built |-> FALSE, envelope |-> NoEnvelope]]

\* the overlapping invocations: two slots, each idle at first
Slots == {1, 2}
IdleSlot ==
    [pc |-> "idle", node |-> "none", inputs |-> BlankInputs, tenantId |-> JUndef,
     request |-> NoRequest, reply |-> NoReply, envelope |-> NoEnvelope, thrown |-> NoError]

\* `global` before startup.js has run
NoGlobals == [SMEFLOW_AFRICAN_MARKET |-> JUndef, SMEFLOW_API |-> JUndef]


Init ==
    /\ pc = "idle"
    /\ node = "none"
    /\ inputs = BlankInputs
    /\ tenantId = JUndef
    /\ request = NoRequest
    /\ attempts = 0
    /\ reply = NoReply
    /\ envelope = NoEnvelope
    /\ thrown = NoError
    /\ resolved = NoCheck
    /\ filtered = NoFilter
    /\ validated = NoValidation
    /\ slots = [i \in Slots |-> IdleSlot]
    /\ globals = NoGlobals
    /\ handled = [done |-> FALSE, header |-> JUndef,
                  config |-> [tenantHeader |-> JUndef, requireTenantId |-> TRUE],
                  status |-> 0, nextCalls |-> 0, tenant |-> JUndef]
    /\ access = [fn |-> "", tenantId |-> JUndef, reply |-> NoReply, result |-> JUndef,
                 threw |-> FALSE]

\* the host calls init(nodeData, input) of node n; r is where its synchronous
\* part ends
Start(n, in, r) ==
    /\ pc' = r.pc
    /\ node' = n
    /\ inputs' = in
    /\ tenantId' = r.tenantId
    /\ request' = r.request
    /\ attempts' = r.attempts
    /\ envelope' = r.envelope
    /\ thrown' = r.thrown
    /\ reply' = NoReply
    /\ UNCHANGED <<resolved, filtered, validated, slots, globals, handled,
                   access>>

AgentInit ==
    /\ pc = "idle"
    /\ \E in \in AgentInputs : Start("Agent", in, SMEFlowAgent_init(in))

AutomatorInit ==
    /\ pc = "idle"
    /\ \E in \in AutomatorInputs : Start("Automator", in, SMEFlowAutomator_init(in))

AutomatorTSInit ==
    /\ pc = "idle"
    /\ \E in \in AutomatorTSInputs : Start("AutomatorTS", in, SMEFlowAutomatorTS_init(in))

MentorInit ==
    /\ pc = "idle"
    /\ \E in \in MentorInputs : Start("Mentor", in, SMEFlowMentor_init(in))

SupervisorInit ==
    /\ pc = "idle"
    /\ \E in \in SupervisorInputs : Start("Supervisor", in, SMEFlowSupervisor_init(in))

WorkflowInit ==
    /\ pc = "idle"
    /\ \E in \in WorkflowInputs : Start("Workflow", in, SMEFlowWorkflow_init(in))

WorkflowExecutorInit ==
    /\ pc = "idle"
    /\ \E in \in WorkflowExecutorInputs :
        Start("WorkflowExecutor", in, SMEFlowWorkflowExecutor_init(in))

AfricanIntegrationsInit ==
    /\ pc = "idle"
    /\ \E in \in AfricanIntegrationsInputs :
        Start("AfricanIntegrations", in, SMEFlowAfricanIntegrations_init(in))

TenantManagerInit ==
    /\ pc = "idle"
    /\ \E in \in TenantManagerInputs : Start("TenantManager", in, SMEFlowTenantManager_init(in))

\* the continuation of node n's init() after `await axios.post(...)`
Settle(n, in, tid, rep) ==
    CASE n = "Agent" -> SMEFlowAgent_settle(in, tid, rep)
      [] n = "AutomatorTS" -> SMEFlowAutomatorTS_settle(in, tid, rep)
      [] n = "Mentor" -> SMEFlowMentor_settle(in, tid, rep)
      [] n = "Supervisor" -> SMEFlowSupervisor_settle(in, tid, rep)
      [] n = "Workflow" -> SMEFlowWorkflow_settle(in, tid, rep)
      [] n = "WorkflowExecutor" -> SMEFlowWorkflowExecutor_settle(in, tid, rep)
      [] OTHER -> SMEFlowAfricanIntegrations_settle(in, tid, rep)

\* bound on the outbound calls of one invocation that the model follows
MaxCalls == 3

\* the pending axios.post settles and init() runs on from its await
BackendReply ==
    /\ pc = "pending"
    /\ \E rep \in Replies(request) :
        LET r == Settle(node, inputs, tenantId, rep)
        IN  /\ r.pc = "pending" => attempts < MaxCalls
            /\ pc' = r.pc
            /\ envelope' = r.envelope
            /\ thrown' = r.thrown
            /\ attempts' = IF r.pc = "pending" THEN attempts + 1 ELSE attempts
            /\ reply' = rep
    /\ UNCHANGED <<node, inputs, tenantId, request, resolved, filtered, validated, slots, globals, handled,
                   access>>

\* the caller has its envelope (or its exception); the next invocation starts
\* from scratch
NextInvocation ==
    /\ pc \in {"returned", "thrown"}
    /\ pc' = "idle"
    /\ node' = "none"
    /\ inputs' = BlankInputs
    /\ tenantId' = JUndef
    /\ request' = NoRequest
    /\ attempts' = 0
    /\ reply' = NoReply
    /\ envelope' = NoEnvelope
    /\ thrown' = NoError
    /\ UNCHANGED <<resolved, filtered, validated, slots, globals, handled,
                   access>>

Next ==
    \/ AgentInit
    \/ AutomatorInit
    \/ AutomatorTSInit
    \/ MentorInit
    \/ SupervisorInit
    \/ WorkflowInit
    \/ WorkflowExecutorInit
    \/ AfricanIntegrationsInit
    \/ TenantManagerInit
    \/ BackendReply
    \/ NextInvocation

Spec == Init /\ [][Next]_vars

----------------------------------------------------------------------------
(* The three tenant checks, applied to one string *)

\* s with its i-th character replaced by c
Subst(s, i, c) == [s EXCEPT ![i] = c]

SubstChars == {"0", "6", "9", "c", "g", "G", "-"}

\* the strings the checks are applied to: well-formed ids in both letter
\* cases, the nil UUID, every single-character change of a well-formed id,
\* and strings one character too short and too long
TenantStrings ==
    {<<>>, T1, T2, NilUuid, NotUuid, SubSeq(T1, 1, 35), Append(T1, "0"), toLowerCase(T2)}
    \cup {Subst(T1, i, c) : i \in 1..36, c \in SubstChars}

\* validateTenantId, the middleware's header check under requireTenantId, and
\* the nodes' inline check, each applied to s
ResolveTenant ==
    \E s \in TenantStrings :
        /\ resolved' = [s |-> s,
                        validator |-> validateTenantId(s).valid,
                        middleware |-> (middlewareTenantCheck(s, TRUE) = 0),
                        inline |-> (inlineTenantCheck(s, "Tenant ID is required") = "")]
        /\ UNCHANGED <<pc, node, inputs, tenantId, request, attempts, reply, envelope, thrown,
                       filtered, validated, slots, globals, handled,
                   access>>

SpecResolve == Init /\ [][ResolveTenant]_vars

----------------------------------------------------------------------------
(* Vocabulary of the properties *)

Failure(env) == env["success"] = JBool(FALSE)
Success(env) == env["success"] = JBool(TRUE)

\* the canonical UUID grammar: 8-4-4-4-12 hexadecimal groups, version nibble
\* 1..5, variant nibble 8, 9, a or b, letters in either case
CanonicalUuid(s) ==
    /\ s # JUndef
    /\ Len(s) = 36
    /\ \A i \in {9, 14, 19, 24} : s[i] = "-"
    /\ \A i \in (1..36) \ {9, 14, 19, 24} : s[i] \in Digits \cup LowerHex \cup UpperHex
    /\ s[15] \in {"1", "2", "3", "4", "5"}
    /\ s[20] \in {"8", "9", "a", "b", "A", "B"}

\* the tenant an invocation acts for: its tenantId input, or the tenant id it
\* adopts from a connected node
EffectiveTenant(n, in) ==
    CASE n \in {"Automator", "WorkflowExecutor"} -> AdoptTenant(in)
      [] n = "AfricanIntegrations" -> IntegrationsTenant(in)
      [] OTHER -> in.tenantId

\* the last outbound attempt ended in a downstream error or a transport error
CallFailed == reply.kind \in {"status", "network", "timeout"}

----------------------------------------------------------------------------
(* C1 *)

\* C1: every invocation of a node's init ends by returning a response
\* envelope; no invocation ends by throwing an exception to its caller.
C1_NeverThrows == pc # "thrown"

----------------------------------------------------------------------------
(* C2 *)

\* C2: no outbound HTTP call is issued for an invocation whose effective
\* tenant identifier is missing or does not match the canonical UUID grammar.
C2_NoDispatchWithoutValidTenant ==
    attempts > 0 => CanonicalUuid(EffectiveTenant(node, inputs))

----------------------------------------------------------------------------
(* C3 *)

\* C3: for every string s, each of the three tenant checks (validateTenantId,
\* the middleware's header check with a required tenant, the nodes' inline
\* check) succeeds if and only if s matches the canonical UUID grammar, so the
\* three accept the same strings.
C3_ChecksAcceptExactlyTheGrammar ==
    resolved # NoCheck =>
        /\ resolved.validator = CanonicalUuid(resolved.s)
        /\ resolved.middleware = CanonicalUuid(resolved.s)
        /\ resolved.inline = CanonicalUuid(resolved.s)

----------------------------------------------------------------------------
(* C4 *)

\* C4: every failure envelope carries error and error_code, and error_code is
\* the downstream HTTP status when the backend answered with one and the
\* literal "UNKNOWN" for transport failures and local failures.
C4_FailureCarriesErrorCode ==
    (pc = "returned" /\ Failure(envelope)) =>
        /\ "error" \in DOMAIN envelope
        /\ "error_code" \in DOMAIN envelope
        /\ envelope["error_code"] =
              IF reply.kind = "status" THEN JNum(reply.status) ELSE JStr("UNKNOWN")

----------------------------------------------------------------------------
(* C5 *)

\* C5: when the outbound call ended in a downstream or transport error the
\* returned envelope has success false, and an envelope with success true is
\* returned only when an outbound call was made and the backend answered
\* successfully.
C5_SuccessOnlyOnBackendSuccess ==
    pc = "returned" =>
        /\ CallFailed => Failure(envelope)
        /\ Success(envelope) => (attempts > 0 /\ reply.kind = "ok")

----------------------------------------------------------------------------
(* C6 *)

\* C6: every returned envelope, success or failure, includes tenant_id equal
\* to the invocation's effective tenant id and a timestamp field.
C6_EnvelopeHasTenantAndTimestamp ==
    pc = "returned" =>
        /\ "tenant_id" \in DOMAIN envelope
        /\ envelope["tenant_id"] = EffectiveTenant(node, inputs)
        /\ "timestamp" \in DOMAIN envelope

----------------------------------------------------------------------------
(* C7 *)

\* C7: every outbound request a node builds carries X-Tenant-ID equal to the
\* invocation's effective tenant id, and carries an Authorization bearer
\* header (of the supplied key) if and only if an API key was supplied.
C7_TenantAndBearerHeaders ==
    request.built =>
        /\ "X-Tenant-ID" \in DOMAIN request.headers
        /\ request.headers["X-Tenant-ID"] = EffectiveTenant(node, inputs)
        /\ ("Authorization" \in DOMAIN request.headers) <=> Truthy(inputs.apiKey)
        /\ "Authorization" \in DOMAIN request.headers =>
              request.headers["Authorization"] = <<"Bearer", inputs.apiKey[2]>>

\* a call is in flight for a tenant adopted from a connected Tenant Manager,
\* with a bearer header
C7_Witness ==
    /\ pc = "pending"
    /\ inputs.tenantManager # JUndef
    /\ request.headers["X-Tenant-ID"] # inputs.tenantId
    /\ "Authorization" \in DOMAIN request.headers

----------------------------------------------------------------------------
(* The configuration layers of an invocation *)

\* the caller's task configuration: the JSON input the node spreads first
\* into the configuration it sends
TaskField(n, in) ==
    CASE n = "Agent" -> in.agentConfig
      [] n \in {"Automator", "AutomatorTS"} -> in.taskConfig
      [] n = "Mentor" -> in.businessContext
      [] n = "Supervisor" -> in.workflowConfig
      [] n = "Workflow" -> in.industryContext
      [] n = "WorkflowExecutor" -> in.workflowContext
      [] OTHER -> in.integrationConfig

\* the caller's market override
MarketField(n, in) ==
    CASE n = "Agent" -> JUndef
      [] n = "AutomatorTS" -> in.marketSettings
      [] n = "AfricanIntegrations" -> in.marketLocalization
      [] OTHER -> in.marketConfig

CallerTask(n, in) == Props(ParseOrEmpty(TaskField(n, in)).val)
CallerMarket(n, in) == Props(ParseOrEmpty(MarketField(n, in)).val)

\* the built-in (or regional) defaults of node n
Defaults(n, in) ==
    CASE n = "Agent" ->
            [region |-> JStr("africa-west"), currency |-> JStr("NGN"),
             timezone |-> JStr("Africa/Lagos"), languages |-> Languages4]
      [] n = "Mentor" -> MentorDefaultMarketConfig
      [] n \in {"Automator", "WorkflowExecutor"} -> DefaultMarketConfig
      [] n = "AutomatorTS" -> AutomatorTSDefaultMarketSettings
      [] n = "Supervisor" -> SupervisorDefaultMarketConfig
      [] n = "Workflow" -> WorkflowDefaultMarketConfig
      [] OTHER -> IntegrationsDefaultLocalization(in)

\* the object of the request body in which the task configuration's keys are sent
TaskSent(n, req) ==
    CASE n = "Mentor" -> req.body.business_context[2]
      [] n = "Supervisor" -> req.body.workflow_config[2]
      [] n = "WorkflowExecutor" -> req.body.context[2]
      [] OTHER -> req.body.config[2]

\* the object of the request body in which the market configuration's keys are sent
MarketSent(n, req) ==
    CASE n = "AutomatorTS" -> req.body.config[2]["market_settings"][2]
      [] n = "WorkflowExecutor" -> req.body.context[2]["market_config"][2]
      [] OTHER -> TaskSent(n, req)

\* keys the node itself writes into the configuration it sends
SystemKeys ==
    {"tenant_id", "source", "workflow_id", "created_at", "market_settings", "retry_config",
     "market_config", "business_rules"}

----------------------------------------------------------------------------
(* C8 *)

\* C8: in the effective configuration an invocation sends, every key the
\* caller supplied (in the task configuration or in the market override; where
\* both supply it, with the same value) has exactly the caller's value, and a
\* key only the defaults have has the default's value.
C8_CallerValueWins ==
    request.built =>
        LET task == CallerTask(node, inputs)
            market == CallerMarket(node, inputs)
            defaults == Defaults(node, inputs)
        IN  /\ \A k \in DOMAIN market :
                (k \in DOMAIN task => task[k] = market[k])
                    => Get(MarketSent(node, request), k) = market[k]
            /\ \A k \in (DOMAIN task) \ SystemKeys :
                (k \in DOMAIN market => task[k] = market[k])
                    => Get(TaskSent(node, request), k) = task[k]
            /\ \A k \in (DOMAIN defaults) \ ((DOMAIN task) \cup (DOMAIN market)) :
                Get(MarketSent(node, request), k) = defaults[k]

----------------------------------------------------------------------------
(* C9 *)

----------------------------------------------------------------------------
(* C10 *)

\* an attempt's outcome that the retry policy re-attempts
RetryEligible(rep) ==
    \/ rep.kind \in {"network", "timeout"}
    \/ rep.kind = "status" /\ (rep.status >= 500 \/ rep.status = 429)

\* the maximum attempt count the invocation is configured with: the retry
\* count the node puts into its request, 3 where it puts none
MaxAttempts(n, req) ==
    CASE n = "AutomatorTS" -> req.body.config[2]["retry_config"][2]["max_retries"][2]
      [] n = "Agent" -> 3
      [] n = "Mentor" -> 3
      [] OTHER -> req.body.execution_options[2]["max_retries"][2]

\* C10: an invocation that returns after a retry-eligible outcome (transport
\* error, status >= 500, or 429) has made the configured maximum number of
\* attempts and returns a failure envelope; one that returns after any other
\* downstream status has made one attempt only; no invocation makes more than
\* the configured maximum.
C10_BoundedRetry ==
    (pc = "returned" /\ attempts > 0) =>
        /\ attempts <= MaxAttempts(node, request)
        /\ RetryEligible(reply) =>
              (attempts = MaxAttempts(node, request) /\ Failure(envelope))
        /\ (reply.kind = "status" /\ ~RetryEligible(reply)) => attempts = 1

----------------------------------------------------------------------------
(* C11 *)

\* C11: every outbound call is issued with a finite (positive) timeout, so
\* that an unanswered call ends by expiry; and an invocation that returns
\* after a timeout expiry returns a failure envelope whose error_code is
\* "UNKNOWN".
C11_FiniteTimeout ==
    /\ attempts > 0 => request.timeout > 0
    /\ (pc = "returned" /\ reply.kind = "timeout") =>
          /\ Failure(envelope)
          /\ Get(envelope, "error_code") = JStr("UNKNOWN")

----------------------------------------------------------------------------
(* TenantIsolationMiddleware.addTenantFilter  (middleware/tenant-isolation.js) *)

\* s.indexOf(pat), counted from 1; 0 when pat does not occur (-1 in JavaScript)
indexOf(s, pat) ==
    LET at == {i \in 1..(Len(s) - Len(pat) + 1) : SubSeq(s, i, i + Len(pat) - 1) = pat}
    IN  IF at = {} THEN 0 ELSE CHOOSE i \in at : \A j \in at : i <= j

\* s.includes(pat)
includes(s, pat) == indexOf(s, pat) > 0

\* the string literals of addTenantFilter: 'where', 'select', 'from', and the
\* words WHERE and ` AND` of its two template literals
SqlText ==
    [where |->
        << "w", "h", "e", "r", "e" >>,
     select |->
        << "s", "e", "l", "e", "c", "t" >>,
     from |->
        << "f", "r", "o", "m" >>,
     WHERE |->
        << "W", "H", "E", "R", "E" >>,
     AND |->
        << " ", "A", "N", "D" >>]

\* the text ` tenant_id = '${tenantId}'` of both template literals
TenantPredicate(tid) ==
    << " ", "t", "e", "n", "a", "n", "t", "_", "i", "d", " ", "=", " ", "'" >> \o tid \o << "'" >>

\* sql.replace(/where/i, repl): the first occurrence of the letters w-h-e-r-e in
\* any letter case, wherever it stands, is replaced; everything else is kept
replaceWhere(sql, repl) ==
    LET i == indexOf(toLowerCase(sql), SqlText.where)
    IN  IF i = 0 THEN sql
        ELSE SubSeq(sql, 1, i - 1) \o repl \o SubSeq(sql, i + Len(SqlText.where), Len(sql))

addTenantFilter(sql, tid) ==
    LET lowerSql == toLowerCase(sql)
    IN  IF ~TruthyStr(tid) THEN sql
        ELSE IF includes(lowerSql, SqlText.where)
        THEN replaceWhere(sql, SqlText.WHERE \o TenantPredicate(tid) \o SqlText.AND)
        ELSE IF includes(lowerSql, SqlText.select)
        THEN IF indexOf(lowerSql, SqlText.from) > 0
             THEN \* sql.slice(0, fromIndex) + sql.slice(fromIndex) is sql itself
                  sql \o << " " >> \o SqlText.WHERE \o TenantPredicate(tid)
             ELSE sql
        ELSE sql

\* the queries createTenantConnection().query is given: a statement head
\* (SELECT * FROM, select id from, SELECT whereabouts FROM, DELETE FROM,
\* Select COUNT(id) From), a table reference (users, somewhere_log) and a tail
\* (none, WHERE id = 1, where id = 1 order by id, ORDER BY id, LIMIT 5)
Queries ==
    LET heads == {
            << "S", "E", "L", "E", "C", "T", " ", "*", " ", "F", "R", "O", "M", " " >>,
            << "s", "e", "l", "e", "c", "t", " ", "i", "d", " ", "f", "r", "o", "m",
               " " >>,
            << "S", "E", "L", "E", "C", "T", " ", "w", "h", "e", "r", "e", "a", "b",
               "o", "u", "t", "s", " ", "F", "R", "O", "M", " " >>,
            << "D", "E", "L", "E", "T", "E", " ", "F", "R", "O", "M", " " >>,
            << "S", "e", "l", "e", "c", "t", " ", "C", "O", "U", "N", "T", "(", "i",
               "d", ")", " ", "F", "r", "o", "m", " " >>}
        tables == {
            << "u", "s", "e", "r", "s" >>,
            << "s", "o", "m", "e", "w", "h", "e", "r", "e", "_", "l", "o", "g" >>}
        tails == {
            <<>>,
            << " ", "W", "H", "E", "R", "E", " ", "i", "d", " ", "=", " ", "1" >>,
            << " ", "w", "h", "e", "r", "e", " ", "i", "d", " ", "=", " ", "1", " ",
               "o", "r", "d", "e", "r", " ", "b", "y", " ", "i", "d" >>,
            << " ", "O", "R", "D", "E", "R", " ", "B", "Y", " ", "i", "d" >>,
            << " ", "L", "I", "M", "I", "T", " ", "5" >>}
    IN  {h \o t \o l : h \in heads, t \in tables, l \in tails}

\* tenant.id as the middleware leaves it: absent, or a string uuidValidate accepted
FilterTenants == {JUndef, T1, T2}

RewriteQuery ==
    \E sql \in Queries, t \in FilterTenants :
        /\ filtered' = [sql |-> sql, tenantId |-> t, out |-> addTenantFilter(sql, t),
                        applied |-> TRUE, via |-> "getTenantDb"]
        /\ UNCHANGED <<pc, node, inputs, tenantId, request, attempts, reply, envelope, thrown,
                       resolved, validated, slots, globals, handled,
                   access>>

SpecFilter == Init /\ [][RewriteQuery]_vars

----------------------------------------------------------------------------
(* Vocabulary of the properties on queries *)

IsWordChar(c) == LowerChar(c) \in Digits \cup {"_"} \cup {LowerLetters[i] : i \in 1..26}

\* the keyword kw stands at position i of sql: its letters in any case, not
\* part of a longer word
KeywordAt(sql, i, kw) ==
    /\ i >= 1
    /\ i + Len(kw) - 1 <= Len(sql)
    /\ toLowerCase(SubSeq(sql, i, i + Len(kw) - 1)) = kw
    /\ (i = 1 \/ ~IsWordChar(sql[i - 1]))
    /\ (i + Len(kw) - 1 = Len(sql) \/ ~IsWordChar(sql[i + Len(kw)]))

HasClause(sql, kw) == \E i \in 1..Len(sql) : KeywordAt(sql, i, kw)

\* position of the first keyword kw of sql
ClauseAt(sql, kw) ==
    CHOOSE i \in 1..Len(sql) :
        KeywordAt(sql, i, kw) /\ \A j \in 1..(i - 1) : ~KeywordAt(sql, j, kw)

\* position of the last character of the table reference: the word that
\* follows FROM and one blank
TableEnd(sql) ==
    LET b == ClauseAt(sql, SqlText.from) + Len(SqlText.from) + 1
    IN  CHOOSE e \in b..Len(sql) :
            /\ \A j \in b..e : IsWordChar(sql[j])
            /\ (e = Len(sql) \/ ~IsWordChar(sql[e + 1]))

----------------------------------------------------------------------------
(* C13 *)

\* C13: for a query with a WHERE clause and a present tenant id, the rewritten
\* query is the query with ` tenant_id = '<value>' AND` inserted immediately
\* after the WHERE keyword (the keyword found in any letter case, and allowed
\* to come out in upper case); every other character is unchanged.
C13_PredicateAfterWhere ==
    (/\ filtered.applied
     /\ TruthyStr(filtered.tenantId)
     /\ HasClause(filtered.sql, SqlText.where)) =>
        LET sql == filtered.sql
            i == ClauseAt(sql, SqlText.where)
        IN  \E kw \in {SubSeq(sql, i, i + 4), SqlText.WHERE} :
                filtered.out =
                    SubSeq(sql, 1, i - 1) \o kw \o TenantPredicate(filtered.tenantId)
                        \o SqlText.AND \o SubSeq(sql, i + 5, Len(sql))

----------------------------------------------------------------------------
(* C14 *)

\* C14: for a query without a WHERE clause but with a FROM clause, and a
\* present tenant id, the rewritten query is the query with
\* ` WHERE tenant_id = '<value>'` inserted directly after the table reference,
\* before any trailing clause, whatever the statement kind.
C14_WhereAfterTable ==
    (/\ filtered.applied
     /\ TruthyStr(filtered.tenantId)
     /\ ~HasClause(filtered.sql, SqlText.where)
     /\ HasClause(filtered.sql, SqlText.from)) =>
        LET sql == filtered.sql
            e == TableEnd(sql)
        IN  filtered.out =
                SubSeq(sql, 1, e) \o << " " >> \o SqlText.WHERE
                    \o TenantPredicate(filtered.tenantId) \o SubSeq(sql, e + 1, Len(sql))

----------------------------------------------------------------------------
(* SMEFlowValidation  (utils/validation.js) *)

\* An error message is the tuple of the parts its template literal joins.
\* s.trim() on the strings of the model: the blank string is the only one
\* that trims to ''
BlankString == JStr("   ")
trim(v) == IF v = BlankString THEN JStr("") ELSE v

\* validateJsonConfig(jsonString, fieldName, required)
validateJsonConfig(jsonString, fieldName, required) ==
    IF ~Truthy(jsonString) \/ trim(jsonString) = JStr("")
    THEN IF required
         THEN [valid |-> FALSE, error |-> <<fieldName, " is required">>, data |-> JUndef]
         ELSE [valid |-> TRUE, error |-> <<>>, data |-> JObj(EmptyObj)]
    ELSE IF ParseOrEmpty(jsonString).ok
    THEN [valid |-> TRUE, error |-> <<>>, data |-> ParseOrEmpty(jsonString).val]
    ELSE [valid |-> FALSE,
          error |-> <<"Invalid JSON format in ", fieldName, ": ", SyntaxErrorMessage[2]>>,
          data |-> JUndef]

\* validateAfricanMarketConfig(marketConfig), marketConfig a property map: the
\* region and currency checks (no caller of the model passes phone_format or
\* languages of a wrong type)
validateAfricanMarketConfig(marketConfig) ==
    LET supportedRegions ==
            {"nigeria", "kenya", "south_africa", "ghana", "uganda", "tanzania", "rwanda",
             "ethiopia", "zambia", "malawi"}
        supportedCurrencies ==
            {"NGN", "KES", "ZAR", "GHS", "UGX", "TZS", "RWF", "ETB", "ZMW", "MWK"}
        region == Get(marketConfig, "region")
        currency == Get(marketConfig, "currency")
        regionErrors ==
            IF Truthy(region) /\ region[2] \notin supportedRegions
            THEN << <<"Unsupported region: ", region[2], ". Supported regions: ">> >>
            ELSE <<>>
        currencyErrors ==
            IF Truthy(currency) /\ currency[2] \notin supportedCurrencies
            THEN << <<"Unsupported currency: ", currency[2], ". Supported currencies: ">> >>
            ELSE <<>>
    IN  [valid |-> regionErrors \o currencyErrors = <<>>,
         errors |-> regionErrors \o currencyErrors]

\* validateAgentConfig(agentConfig, 'mentor'): the expertise_level check
validateAgentConfig(agentConfig) ==
    LET level == Get(agentConfig, "expertise_level")
        bad == Truthy(level)
               /\ level[2] \notin {"beginner", "intermediate", "advanced", "expert"}
    IN  [valid |-> ~bad,
         errors |-> IF bad
                    THEN << <<"Invalid expertise level. Must be: beginner, intermediate, advanced, or expert">> >>
                    ELSE <<>>]

\* validateComplianceConfig(complianceConfig): the regulatory_compliance check
validateComplianceConfig(complianceConfig) ==
    LET supportedRegulations ==
            {"cbn", "popia", "gdpr", "cbk", "sarb", "sars", "kra", "bog", "gra"}
        regs == Get(complianceConfig, "regulatory_compliance")
        unsupported ==
            IF Truthy(regs) /\ regs[1] = "arr"
            THEN SelectSeq(regs[2], LAMBDA r : r \notin supportedRegulations)
            ELSE <<>>
    IN  [valid |-> unsupported = <<>>,
         errors |-> IF unsupported # <<>>
                    THEN << <<"Unsupported regulations: ">> \o unsupported >>
                    ELSE <<>>]

\* validateApiConfig({ apiUrl, apiKey }): new URL(apiUrl) accepts the one
\* well-formed URL of the model; apiKey.length is 5 for the short key
validateApiConfig(apiUrl, apiKey) ==
    LET urlErrors ==
            IF ~Truthy(apiUrl) THEN << <<"API URL is required">> >>
            ELSE IF apiUrl # JStr("http://smeflow:8000") THEN << <<"Invalid API URL format">> >>
            ELSE <<>>
        keyErrors ==
            IF Truthy(apiKey) /\ apiKey = JStr("short")
            THEN << <<"API key appears to be too short (minimum 10 characters)">> >>
            ELSE <<>>
    IN  [valid |-> urlErrors \o keyErrors = <<>>, errors |-> urlErrors \o keyErrors]

\* validationResults.valid = false; validationResults.errors.push(error)
FailKeepsValid(res, error) == [res EXCEPT !.errors = Append(@, error)]

Fail(res, error) == [res EXCEPT !.valid = FALSE, !.errors = Append(@, error)]

\* the node-specific validators: each takes validationResults and gives it
\* back with the failures of its rules recorded
validateAutomatorInputs(in, res) ==
    LET taskConfigValidation == validateJsonConfig(in.taskConfig, "Task Configuration", TRUE)
        inputDataValidation == validateJsonConfig(in.inputData, "Input Data", FALSE)
        res1 == IF taskConfigValidation.valid THEN res ELSE Fail(res, taskConfigValidation.error)
    IN  IF inputDataValidation.valid THEN res1 ELSE Fail(res1, inputDataValidation.error)

validateMentorInputs(in, res) ==
    LET contextValidation == validateJsonConfig(in.businessContext, "Business Context", FALSE)
        res1 == IF ~Truthy(in.question) \/ trim(in.question) = JStr("")
                THEN Fail(res, <<"Question or challenge is required for mentor guidance">>)
                ELSE res
    IN  IF contextValidation.valid THEN res1 ELSE Fail(res1, contextValidation.error)

validateSupervisorInputs(in, res) ==
    IF ~Truthy(in.workflowConfig) /\ ~Truthy(in.agentCoordination)
    THEN Fail(res, <<"Either workflow configuration or agent coordination is required">>)
    ELSE res

validateAfricanIntegrationsInputs(in, res) ==
    LET configValidation ==
            validateJsonConfig(in.integrationConfig, "Integration Configuration", TRUE)
    IN  IF configValidation.valid THEN res ELSE Fail(res, configValidation.error)

\* validateNodeInputs, were it to return at the first rule that fails
validateNodeInputsFirstFailure(in, nodeType) ==
    LET tenantValidation == validateTenantId(in.tenantId)
        apiValidation == validateApiConfig(in.apiUrl, in.apiKey)
        res0 == [valid |-> TRUE, errors |-> <<>>, sanitizedInputs |-> [tenantId |-> JUndef]]
    IN  IF ~tenantValidation.valid THEN Fail(res0, <<tenantValidation.error>>)
        ELSE IF ~apiValidation.valid THEN Fail(res0, apiValidation.errors[1])
        ELSE CASE nodeType = "automator" -> validateAutomatorInputs(in, res0)
               [] nodeType = "mentor" -> validateMentorInputs(in, res0)
               [] nodeType = "supervisor" -> validateSupervisorInputs(in, res0)
               [] nodeType = "african_integrations" ->
                      validateAfricanIntegrationsInputs(in, res0)
               [] OTHER -> res0

\* validateNodeInputs(inputs, nodeType)
validateNodeInputs(in, nodeType) ==
    LET tenantValidation == validateTenantId(in.tenantId)
        apiValidation == validateApiConfig(in.apiUrl, in.apiKey)
        res0 == [valid |-> TRUE, errors |-> <<>>, sanitizedInputs |-> [tenantId |-> JUndef]]
        res1 == IF ~tenantValidation.valid
                THEN Fail(res0, <<tenantValidation.error>>)
                ELSE [res0 EXCEPT !.sanitizedInputs.tenantId = tenantValidation.tenantId]
        res2 == IF ~apiValidation.valid
                THEN [res1 EXCEPT !.valid = FALSE, !.errors = @ \o apiValidation.errors]
                ELSE res1
    IN  CASE nodeType = "automator" -> validateAutomatorInputs(in, res2)
          [] nodeType = "mentor" -> validateMentorInputs(in, res2)
          [] nodeType = "supervisor" -> validateSupervisorInputs(in, res2)
          [] nodeType = "african_integrations" -> validateAfricanIntegrationsInputs(in, res2)
          [] OTHER -> res2

\* what the node of that type does with the same inputs: where the
\* synchronous part of its init() ends
NodeInit(nodeType, in) ==
    CASE nodeType = "automator" -> SMEFlowAutomator_init(in)
      [] nodeType = "mentor" -> SMEFlowMentor_init(in)
      [] nodeType = "supervisor" -> SMEFlowSupervisor_init(in)
      [] nodeType = "african_integrations" -> SMEFlowAfricanIntegrations_init(in)
      [] OTHER -> SMEFlowAgent_init(in)

\* the inputs handed to validateNodeInputs, per node type
ValidationInputs(nodeType) ==
    LET blank == BlankInputs @@ [apiUrl |-> JUndef, agentCoordination |-> JUndef]
        obj == JsonText(JObj([amount |-> JNum(1500)]))
        common ==
            {[blank EXCEPT !.tenantId = t, !.apiUrl = u, !.apiKey = k] :
                t \in {JUndef, T1, NotUuid},
                u \in {JUndef, JStr("smeflow:8000/api"), JStr("http://smeflow:8000")},
                k \in {JUndef, JStr("short")}}
        markets ==
            {JUndef, BadJson, JsonText(JObj([region |-> JStr("kenya")])),
             JsonText(JObj([region |-> JStr("atlantis")]))}
    IN  CASE nodeType = "automator" ->
                {[c EXCEPT !.taskConfig = a, !.inputData = b, !.marketConfig = m] :
                    c \in common, a \in {JUndef, BlankString, BadJson, obj},
                    b \in {JUndef, BadJson, obj}, m \in markets}
          [] nodeType = "mentor" ->
                {[c EXCEPT !.question = q, !.businessContext = b, !.agentConfig = a] :
                    c \in common,
                    q \in {JUndef, JStr(""), BlankString, JStr("How should I price my services?")},
                    b \in {JUndef, BadJson, obj},
                    a \in {JUndef, JsonText(JObj([expertise_level |-> JStr("guru")]))}}
          [] nodeType = "supervisor" ->
                {[c EXCEPT !.workflowConfig = w, !.agentCoordination = a, !.marketConfig = m] :
                    c \in common, w \in {JUndef, BadJson, obj}, a \in {JUndef, obj},
                    m \in {JUndef, JsonText(JObj([region |-> JStr("atlantis")]))}}
          [] nodeType = "african_integrations" ->
                {[c EXCEPT !.integrationConfig = a, !.requestData = obj,
                           !.complianceSettings = x, !.country = y] :
                    c \in common, a \in {JUndef, BlankString, BadJson, obj},
                    x \in {JUndef,
                           JsonText(JObj([regulatory_compliance |-> JArr(<<"cbn", "hipaa">>)])),
                           JsonText(JObj([regulatory_compliance |-> JArr(<<"cbn">>)]))},
                    y \in Countries}
          [] OTHER -> common

\* one call of validateNodeInputs
ValidateInputs ==
    /\ ~validated.applied
    /\ \E nodeType \in {"automator", "mentor", "supervisor", "african_integrations", "agent"} :
        \E in \in ValidationInputs(nodeType) :
            LET v == validateNodeInputs(in, nodeType)
                r == NodeInit(nodeType, in)
            IN  /\ validated' = [inputs |-> in, nodeType |-> nodeType, valid |-> v.valid,
                                 errors |-> v.errors, applied |-> TRUE,
                                 init |-> [pc |-> r.pc, thrown |-> r.thrown,
                                           built |-> r.request.built,
                                           envelope |-> r.envelope]]
                /\ UNCHANGED <<pc, node, inputs, tenantId, request, attempts, reply, envelope,
                               thrown, resolved, filtered, slots, globals, handled,
                   access>>

SpecValidate == Init /\ [][ValidateInputs]_vars

----------------------------------------------------------------------------
(* Vocabulary of the properties on validation *)

\* message msg contains x as one of its parts
Mentions(msg, x) == \E i \in 1..Len(msg) : msg[i] = x

\* some error of the validation result contains x
SomeErrorMentions(x) ==
    \E i \in 1..Len(validated.errors) : Mentions(validated.errors[i], x)

\* the tenant id of the validated inputs passes the node's own tenant check
NodeAcceptsTenant == inlineTenantCheck(validated.inputs.tenantId, "missing") = ""

----------------------------------------------------------------------------
(* C15 *)

\* C15: a supervision invocation is rejected for its required inputs, with
\* the error saying that workflow configuration or agent coordination is
\* required, exactly when neither is present; and the Supervisor node (given a
\* tenant id it accepts) refuses the invocation for a missing input exactly in
\* the same case.
C15_SupervisorNeedsOneOfTwo ==
    (validated.applied /\ validated.nodeType = "supervisor") =>
        LET neither == /\ ~Truthy(validated.inputs.workflowConfig)
                       /\ ~Truthy(validated.inputs.agentCoordination)
        IN  /\ neither <=>
                SomeErrorMentions("Either workflow configuration or agent coordination is required")
            /\ neither => ~validated.valid
            /\ NodeAcceptsTenant =>
                  (neither <=>
                      validated.init.thrown = "Workflow Configuration is required for supervision")

----------------------------------------------------------------------------
(* C16 *)

\* C16: a mentorship invocation with a valid tenant id and an empty question
\* fails validation with an error naming the missing question, and the Mentor
\* node issues no outbound call and returns an envelope with success false.
C16_EmptyQuestionRejected ==
    (/\ validated.applied
     /\ validated.nodeType = "mentor"
     /\ NodeAcceptsTenant
     /\ ~Truthy(trim(validated.inputs.question))) =>
        /\ ~validated.valid
        /\ SomeErrorMentions("Question or challenge is required for mentor guidance")
        /\ validated.init.pc # "pending"
        /\ ~validated.init.built
        /\ validated.init.pc = "returned"
        /\ Failure(validated.init.envelope)

----------------------------------------------------------------------------
(* C17 *)

\* the JSON-typed input fields of each operation: input name, the name the
\* validator gives it, and whether it is required
JsonFields(nodeType) ==
    CASE nodeType = "automator" ->
            {<<"taskConfig", "Task Configuration", TRUE>>,
             <<"inputData", "Input Data", FALSE>>,
             <<"marketConfig", "Market Configuration", FALSE>>}
      [] nodeType = "mentor" ->
            {<<"businessContext", "Business Context", FALSE>>,
             <<"marketConfig", "Market Configuration", FALSE>>}
      [] nodeType = "supervisor" ->
            {<<"workflowConfig", "Workflow Configuration", FALSE>>,
             <<"marketConfig", "Market Configuration", FALSE>>}
      [] nodeType = "african_integrations" ->
            {<<"integrationConfig", "Integration Configuration", TRUE>>,
             <<"complianceSettings", "Compliance Settings", FALSE>>}
      [] OTHER -> {}

\* C17: for each JSON-typed input field of an operation: present and not
\* parseable, validation fails with an error naming the field; empty or
\* absent, validation fails (naming the field) if the field is required and
\* raises no error about it if it is optional.
C17_JsonFieldsValidated ==
    validated.applied =>
        \A f \in JsonFields(validated.nodeType) :
            LET value == validated.inputs[f[1]]
                empty == ~Truthy(trim(value))
            IN  /\ (~empty /\ ~ParseOrEmpty(value).ok) =>
                      (~validated.valid /\ SomeErrorMentions(f[2]))
                /\ (empty /\ f[3]) => (~validated.valid /\ SomeErrorMentions(f[2]))
                /\ (empty /\ ~f[3]) => ~SomeErrorMentions(f[2])

----------------------------------------------------------------------------
(* C18 *)

\* the values of the enumerated fields of the validated inputs that are not
\* members of their closed set: region, expertise level, regulation codes
RejectedValues ==
    LET in == validated.inputs
        market == Props(ParseOrEmpty(in.marketConfig).val)
        agent == Props(ParseOrEmpty(in.agentConfig).val)
        compliance == Props(ParseOrEmpty(in.complianceSettings).val)
        regs == Get(compliance, "regulatory_compliance")
    IN  (IF ~validateAfricanMarketConfig(market).valid THEN {market["region"][2]} ELSE {})
        \cup (IF ~validateAgentConfig(agent).valid THEN {agent["expertise_level"][2]} ELSE {})
        \cup (IF ~validateComplianceConfig(compliance).valid
              THEN {r \in {regs[2][i] : i \in 1..Len(regs[2])} :
                        Mentions(validateComplianceConfig(compliance).errors[1], r)}
              ELSE {})

\* C18: validateNodeInputs rejects a region, expertise level or regulation
\* code outside its closed set: the result is not valid, and an error names
\* the rejected value.
C18_EnumeratedValuesChecked ==
    validated.applied =>
        \A x \in RejectedValues : ~validated.valid /\ SomeErrorMentions(x)

----------------------------------------------------------------------------
(* C19, C20: the region-dependent keys of the effective configuration *)

\* the keys of the market configuration whose default value is that of a region
RegionKeys == {"currency", "timezone", "language", "languages", "phone_format"}

\* the region or country the caller names: the country input of the African
\* integrations, the region key of the market override of the other nodes
CallerRegion(n, in) ==
    IF n = "AfricanIntegrations" THEN in.country ELSE Get(CallerMarket(n, in), "region")

\* the caller names a region, and the node has no defaults for it: a country
\* outside countryDefaults for the African integrations; for the other nodes a
\* region that is neither the region of the node's defaults nor one of the
\* supportedRegions
UnknownRegion(n, in) ==
    /\ CallerRegion(n, in) # JUndef
    /\ CallerRegion(n, in) # JStr("")
    /\ IF n = "AfricanIntegrations"
       THEN CallerRegion(n, in)[2] \notin DOMAIN countryDefaults
       ELSE /\ CallerRegion(n, in) # Get(Defaults(n, in), "region")
            /\ ~validateAfricanMarketConfig([region |-> CallerRegion(n, in)]).valid

\* C19: when the caller names a region or country the node has no regional
\* defaults for, the request is built without error and every region-dependent
\* key (currency, timezone, language(s), phone format) of the configuration
\* that is sent was supplied by the caller, with the caller's value: no value
\* of the default region is injected.
C19_NoDefaultForUnknownRegion ==
    (request.built /\ UnknownRegion(node, inputs)) =>
        \A k \in RegionKeys \cap DOMAIN MarketSent(node, request) :
            \/ /\ k \in DOMAIN CallerMarket(node, inputs)
               /\ MarketSent(node, request)[k] = CallerMarket(node, inputs)[k]
            \/ /\ k \in DOMAIN CallerTask(node, inputs)
               /\ MarketSent(node, request)[k] = CallerTask(node, inputs)[k]

\* C20: the effective configuration of every invocation that reaches dispatch
\* contains the keys region, currency, timezone and languages.
C20_RequiredMarketKeys ==
    request.built =>
        {"region", "currency", "timezone", "languages"}
            \subseteq DOMAIN MarketSent(node, request)

----------------------------------------------------------------------------
(* Concurrent invocations.  Each call of init() is an async function with its
   own local consts; the host may have several of them waiting at their
   `await axios.post(...)` at once.  slots[i] is the i-th of them; globals are
   the properties of `global` that config/startup.js writes. *)

\* where the synchronous part of node n's init(in) ends
Begin(n, in) ==
    CASE n = "Agent" -> SMEFlowAgent_init(in)
      [] n = "AutomatorTS" -> SMEFlowAutomatorTS_init(in)
      [] n = "Mentor" -> SMEFlowMentor_init(in)
      [] n = "Supervisor" -> SMEFlowSupervisor_init(in)
      [] n = "Workflow" -> SMEFlowWorkflow_init(in)
      [] n = "WorkflowExecutor" -> SMEFlowWorkflowExecutor_init(in)
      [] OTHER -> SMEFlowAfricanIntegrations_init(in)

\* the nodes and inputs of the invocations that run side by side: both
\* tenants, with and without an override, and one without a tenant
ConcurrentInputs(n) ==
    IF n = "Mentor"
    THEN {[BlankInputs EXCEPT !.tenantId = t, !.question = JStr("How should I price my services?"),
                              !.marketConfig = m] :
            t \in {JUndef, T1, T2},
            m \in {JUndef, JsonText(JObj([region |-> JStr("kenya"), currency |-> JStr("KES")]))}}
    ELSE {[BlankInputs EXCEPT !.tenantId = t, !.country = y,
                              !.integrationConfig = JsonText(JObj([amount |-> JNum(1500)]))] :
            t \in {T1, T2}, y \in {JUndef, JStr("kenya")}}

\* the variables an invocation would read after its await, were they kept in
\* one module-level variable that the latest pending invocation overwrites
SharedConsts(sl, i) ==
    sl[CHOOSE j \in Slots : /\ sl[j].pc = "pending"
                            /\ \A k \in Slots : sl[k].pc = "pending" => k <= j]

\* the variables the continuation of invocation i does read after its await:
\* the local consts of its own call of init()
LocalConsts(sl, i) == sl[i]

\* startup writes global.SMEFLOW_AFRICAN_MARKET
setupAfricanMarketDefaults ==
    /\ globals.SMEFLOW_AFRICAN_MARKET = JUndef
    /\ globals' = [globals EXCEPT !.SMEFLOW_AFRICAN_MARKET =
                        JObj([defaultRegion |-> JStr("nigeria"),
                              defaultTimezone |-> JStr("Africa/Lagos")])]
    /\ UNCHANGED <<pc, node, inputs, tenantId, request, attempts, reply, envelope, thrown,
                   resolved, filtered, validated, slots, handled, access>>

\* and then global.SMEFLOW_API
configureSMEFlowAPI ==
    /\ globals.SMEFLOW_AFRICAN_MARKET # JUndef
    /\ globals.SMEFLOW_API = JUndef
    /\ globals' = [globals EXCEPT !.SMEFLOW_API =
                        JObj([baseUrl |-> JStr("http://smeflow:8000"),
                              timeout |-> JNum(30000), retries |-> JNum(3)])]
    /\ UNCHANGED <<pc, node, inputs, tenantId, request, attempts, reply, envelope, thrown,
                   resolved, filtered, validated, slots, handled, access>>

\* the host calls init() while other invocations may be waiting
SlotInit(i) ==
    /\ slots[i].pc = "idle"
    /\ \E n \in {"Mentor", "AfricanIntegrations"} :
        \E in \in ConcurrentInputs(n) :
            LET r == Begin(n, in)
            IN  slots' = [slots EXCEPT ![i] =
                            [pc |-> r.pc, node |-> n, inputs |-> in, tenantId |-> r.tenantId,
                             request |-> r.request, reply |-> NoReply,
                             envelope |-> r.envelope, thrown |-> r.thrown]]
    /\ UNCHANGED <<pc, node, inputs, tenantId, request, attempts, reply, envelope, thrown,
                   resolved, filtered, validated, globals, handled,
                   access>>

\* the axios.post of invocation i settles and its init() runs on
SlotReply(i) ==
    /\ slots[i].pc = "pending"
    /\ \E rep \in Replies(slots[i].request) :
        LET own == LocalConsts(slots, i)
            r == Settle(own.node, own.inputs, own.tenantId, rep)
        IN  /\ r.pc # "pending"
            /\ slots' = [slots EXCEPT ![i].pc = r.pc, ![i].reply = rep,
                                      ![i].envelope = r.envelope, ![i].thrown = r.thrown]
    /\ UNCHANGED <<pc, node, inputs, tenantId, request, attempts, reply, envelope, thrown,
                   resolved, filtered, validated, globals, handled,
                   access>>

\* the caller of invocation i has its result
SlotDone(i) ==
    /\ slots[i].pc \in {"returned", "thrown"}
    /\ slots' = [slots EXCEPT ![i] = IdleSlot]
    /\ UNCHANGED <<pc, node, inputs, tenantId, request, attempts, reply, envelope, thrown,
                   resolved, filtered, validated, globals, handled,
                   access>>

NextConcurrent ==
    \/ setupAfricanMarketDefaults
    \/ configureSMEFlowAPI
    \/ \E i \in Slots : SlotInit(i)
    \/ \E i \in Slots : SlotReply(i)
    \/ \E i \in Slots : SlotDone(i)

SpecConcurrent == Init /\ [][NextConcurrent]_vars

\* what invocation `own` holds is what its node computes from its inputs
\* alone and, once its call has settled, from its reply alone
OwnResult(own) ==
    LET r == Begin(own.node, own.inputs)
    IN  /\ own.tenantId = r.tenantId
        /\ own.request = r.request
        /\ IF own.reply = NoReply
           THEN /\ own.pc = r.pc
                /\ own.envelope = r.envelope
                /\ own.thrown = r.thrown
           ELSE LET e == Settle(own.node, own.inputs, r.tenantId, own.reply)
                IN  /\ own.pc = e.pc
                    /\ own.envelope = e.envelope
                    /\ own.thrown = e.thrown

----------------------------------------------------------------------------
(* C21, C22: the result of validateNodeInputs *)

\* the error of one rule checked on its own: a one-element sequence when the
\* rule fails, the empty sequence when it passes
JsonRule(v, fieldName, required) ==
    IF validateJsonConfig(v, fieldName, required).valid
    THEN <<>>
    ELSE <<validateJsonConfig(v, fieldName, required).error>>

\* the rules that apply to an invocation of nodeType, each checked on its own,
\* in rule order: tenant id, API URL, API key, then the node's rules
RuleErrors(in, nodeType) ==
    (IF validateTenantId(in.tenantId).valid THEN <<>>
     ELSE << <<validateTenantId(in.tenantId).error>> >>)
    \o validateApiConfig(in.apiUrl, JUndef).errors
    \o validateApiConfig(JStr("http://smeflow:8000"), in.apiKey).errors
    \o (CASE nodeType = "automator" ->
                JsonRule(in.taskConfig, "Task Configuration", TRUE)
                    \o JsonRule(in.inputData, "Input Data", FALSE)
          [] nodeType = "mentor" ->
                (IF ~Truthy(in.question) \/ trim(in.question) = JStr("")
                 THEN << <<"Question or challenge is required for mentor guidance">> >>
                 ELSE <<>>)
                    \o JsonRule(in.businessContext, "Business Context", FALSE)
          [] nodeType = "supervisor" ->
                (IF ~Truthy(in.workflowConfig) /\ ~Truthy(in.agentCoordination)
                 THEN << <<"Either workflow configuration or agent coordination is required">> >>
                 ELSE <<>>)
          [] nodeType = "african_integrations" ->
                JsonRule(in.integrationConfig, "Integration Configuration", TRUE)
          [] OTHER -> <<>>)

C22_ValidIffNoErrors ==
    validated.applied => (validated.valid <=> validated.errors = <<>>)

\* a mentor invocation whose only failure is the missing question: one error,
\* and valid is false
C22_Witness ==
    /\ validated.applied
    /\ validated.nodeType = "mentor"
    /\ ~validated.valid
    /\ validated.errors = << <<"Question or challenge is required for mentor guidance">> >>

----------------------------------------------------------------------------
(* C23 *)

\* the cost and usage fields of a backend reply and of an envelope
CostFields == {"cost_usd", "total_cost_usd", "tokens_used"}

\* C23: in the success envelope built from a backend reply, every cost and
\* usage field has the value the backend reported: the reported number, zero
\* included, and undefined when the backend omitted the field.
C23_CostPassedThrough ==
    (pc = "returned" /\ reply.kind = "ok" /\ reply.data # JNull /\ Success(envelope)) =>
        \A k \in CostFields \cap DOMAIN envelope :
            envelope[k] = Get(Props(reply.data), k)

----------------------------------------------------------------------------
(* TenantIsolationMiddleware.middleware and the queries of a tenant connection
   (middleware/tenant-isolation.js) *)

\* tenantId.replace(/-/g, '_')
replaceHyphens(s) == [i \in DOMAIN s |-> IF s[i] = "-" THEN "_" ELSE s[i]]

\* the handler middleware() returns, applied to a request whose tenant header
\* is `header` (JUndef when the request has none): the status of the response
\* it sends (0: none), the number of calls of next(), and req.tenant
middleware(header, config) ==
    IF config.tenantHeader = JNull
    THEN \* this.config.tenantHeader.toLowerCase() throws; caught
         [status |-> 500, nextCalls |-> 0, tenant |-> JUndef]
    ELSE IF middlewareTenantCheck(header, config.requireTenantId) # 0
    THEN [status |-> middlewareTenantCheck(header, config.requireTenantId),
          nextCalls |-> 0, tenant |-> JUndef]
    ELSE [status |-> 0, nextCalls |-> 1,
          tenant |-> JObj([id |-> header,
                           schema |-> IF TruthyStr(header)
                                      THEN <<"t", "e", "n", "a", "n", "t", "_">>
                                               \o replaceHyphens(header)
                                      ELSE <<"p", "u", "b", "l", "i", "c">>,
                           isolated |-> TruthyStr(header)])]

\* a tenant id that is no UUID and closes the SQL string literal
QuoteBreaker == << "x", "'", " ", "O", "R", " ", "'", "1", "'", "=", "'", "1" >>

\* the tenant headers of the requests, and the configurations the middleware
\* is constructed with
Headers == {JUndef, <<>>, T1, T2, toLowerCase(T2), NilUuid, NotUuid, QuoteBreaker}
MiddlewareConfigs ==
    {[tenantHeader |-> h, requireTenantId |-> r] :
        h \in {JStr("X-Tenant-ID"), JNull}, r \in BOOLEAN}

\* the statements run through a tenant connection: the queries above, and
\* statements of the other kinds
Statements ==
    Queries \cup
    {<< "I", "N", "S", "E", "R", "T", " ", "I", "N", "T", "O", " ", "u", "s", "e", "r",
        "s", " ", "V", "A", "L", "U", "E", "S", " ", "(", "1", ")" >>,
     << "U", "P", "D", "A", "T", "E", " ", "u", "s", "e", "r", "s", " ", "S", "E", "T",
        " ", "a", " ", "=", " ", "1" >>,
     << "U", "P", "D", "A", "T", "E", " ", "u", "s", "e", "r", "s", " ", "S", "E", "T",
        " ", "a", " ", "=", " ", "1", " ", "W", "H", "E", "R", "E", " ", "i", "d", " ",
        "=", " ", "1" >>}

\* the middleware handles one request
HandleRequest ==
    /\ ~handled.done
    /\ \E header \in Headers, config \in MiddlewareConfigs :
        handled' = [done |-> TRUE, header |-> header, config |-> config]
                       @@ middleware(header, config)
    /\ UNCHANGED <<pc, node, inputs, tenantId, request, attempts, reply, envelope, thrown,
                   resolved, filtered, validated, slots, globals, access>>

\* a handler behind the middleware runs req.getTenantDb().query(sql)
TenantQuery ==
    /\ handled.nextCalls = 1
    /\ ~filtered.applied
    /\ \E sql \in Statements :
        filtered' = [sql |-> sql, tenantId |-> Props(handled.tenant).id,
                     out |-> addTenantFilter(sql, Props(handled.tenant).id),
                     applied |-> TRUE, via |-> "getTenantDb"]
    /\ UNCHANGED <<pc, node, inputs, tenantId, request, attempts, reply, envelope, thrown,
                   resolved, validated, slots, globals, handled, access>>

\* code that holds the middleware object calls createTenantConnection(tenant)
\* .query(sql), or addTenantFilter(sql, tenantId), itself
DirectQuery ==
    /\ ~filtered.applied
    /\ \E sql \in Statements, t \in {JUndef, T1, NotUuid, QuoteBreaker} :
        filtered' = [sql |-> sql, tenantId |-> t, out |-> addTenantFilter(sql, t),
                     applied |-> TRUE, via |-> "direct"]
    /\ UNCHANGED <<pc, node, inputs, tenantId, request, attempts, reply, envelope, thrown,
                   resolved, validated, slots, globals, handled, access>>

NextMiddleware ==
    \/ HandleRequest
    \/ TenantQuery
    \/ DirectQuery

SpecMiddleware == Init /\ [][NextMiddleware]_vars

----------------------------------------------------------------------------
(* C24 .. C27 *)

\* C24: when the middleware resolves a tenant id t, the namespace it derives
\* (req.tenant.schema) is "tenant_" followed by t in lower case with every
\* hyphen replaced by an underscore.
C24_NamespaceLowerCased ==
    (handled.nextCalls = 1 /\ TruthyStr(handled.header)) =>
        Props(handled.tenant).schema
            = <<"t", "e", "n", "a", "n", "t", "_">> \o replaceHyphens(toLowerCase(handled.header))

\* C25: for every request the middleware handles, either it sends an error
\* response (400 or 500) and does not call next(), or it calls next() once with
\* req.tenant set and sends no response; with requireTenantId, next() is
\* reached only when the header holds a UUID of the canonical grammar; and
\* req.tenant.isolated is true exactly when a tenant id is present.
C25_ErrorOrNext ==
    handled.done =>
        /\ \/ handled.status \in {400, 500} /\ handled.nextCalls = 0 /\ handled.tenant = JUndef
           \/ handled.status = 0 /\ handled.nextCalls = 1 /\ handled.tenant # JUndef
        /\ (handled.config.requireTenantId /\ handled.nextCalls = 1) =>
              TruthyStr(handled.header) /\ CanonicalUuid(handled.header)
        /\ handled.nextCalls = 1 => (Props(handled.tenant).isolated <=> TruthyStr(handled.header))

\* C26: every statement run through req.getTenantDb().query for a tenant that
\* has an id reaches executeQuery with the tenant_id predicate of that tenant
\* in it, whatever the kind of the statement and whether or not it has a WHERE
\* clause.
C26_EveryStatementScoped ==
    (filtered.applied /\ filtered.via = "getTenantDb" /\ TruthyStr(filtered.tenantId)) =>
        includes(filtered.out, TenantPredicate(filtered.tenantId))

\* C27: every tenant id addTenantFilter interpolates into a statement, on the
\* path through the middleware and on direct calls alike, has passed the UUID
\* validation, and so consists of hexadecimal digits and hyphens only.
C27_InterpolatedIdValidated ==
    (filtered.applied /\ filtered.out # filtered.sql) =>
        /\ uuidValidate(filtered.tenantId)
        /\ \A i \in 1..Len(filtered.tenantId) :
              IsHex(filtered.tenantId[i]) \/ filtered.tenantId[i] = "-"

----------------------------------------------------------------------------
(* C28 *)

\* the output of the Tenant Manager connected to the invocation, if any
ConnectedManager == inputs.tenantManager

\* C28: a downstream node (Automator, Workflow Executor, African integrations)
\* connected to a Tenant Manager whose output does not report success true
\* does not go on with the Tenant Manager's tenant_id in place of its own
\* tenantId input.
C28_FailedManagerNotAdopted ==
    (/\ node \in {"Automator", "WorkflowExecutor", "AfricanIntegrations"}
     /\ pc # "idle"
     /\ Truthy(ConnectedManager)
     /\ Get(Props(ConnectedManager), "success") # JBool(TRUE)
     /\ inputs.tenantId # Get(Props(ConnectedManager), "tenant_id")) =>
        tenantId # Get(Props(ConnectedManager), "tenant_id")

----------------------------------------------------------------------------
(* C29 *)

\* C29: the Tenant Manager, given a tenant id of the canonical UUID shape and
\* optional JSON inputs (tenantConfig, marketSettings) that are absent or
\* well-formed, returns an envelope with success true, the given tenant_id,
\* and market_config equal to the built-in market defaults overridden by the
\* market settings supplied.
C29_TenantManagerSucceeds ==
    (/\ node = "TenantManager"
     /\ pc # "idle"
     /\ TruthyStr(inputs.tenantId)
     /\ CanonicalUuid(inputs.tenantId)
     /\ inputs.tenantConfig # BadJson
     /\ inputs.marketSettings # BadJson) =>
        /\ pc = "returned"
        /\ Success(envelope)
        /\ Get(envelope, "tenant_id") = inputs.tenantId
        /\ Get(envelope, "market_config")
              = JObj(Spread(DefaultMarketConfig, Props(ParseOrEmpty(inputs.marketSettings).val)))

----------------------------------------------------------------------------
(* validateTenantAccess, getTenantConfig (middleware/tenant-isolation.js) and
   validateTenantConfig (config/startup.js) *)

\* how the fetch of a tenant endpoint settles: it rejects (network failure),
\* it answers with a status that is not ok, or it answers ok with a body;
\* BadJson is a body of which response.json() rejects
FetchOutcomes ==
    {[kind |-> "network", status |-> 0, data |-> JUndef]}
    \cup {[kind |-> "status", status |-> c, data |-> JUndef] : c \in {403, 404, 500}}
    \cup {[kind |-> "ok", status |-> 200, data |-> b] :
            b \in {BadJson, JNull, JNum(1), JObj(EmptyObj),
                   JObj([valid |-> JBool(TRUE)]), JObj([valid |-> JBool(FALSE)]),
                   JObj([valid |-> JStr("true")]), JObj([valid |-> JNum(1)]),
                   JObj([valid |-> JBool(TRUE), id |-> T1, currency |-> JStr("KES")])}}

\* the statements of a try block of these functions that raise: fetch rejects,
\* `if (!response.ok) throw`, response.json() rejects, a property of null is read
Raises(rep) == rep.kind # "ok" \/ rep.data = BadJson \/ rep.data = JNull

\* validateTenantAccess, were it to return result.valid as it is
validateTenantAccessAsIs(tid, rep) ==
    IF Raises(rep)
    THEN [result |-> JBool(FALSE), threw |-> FALSE]
    ELSE [result |-> Get(Props(rep.data), "valid"), threw |-> FALSE]

\* validateTenantAccess(tenantId, resource, action), its fetch settling as rep
validateTenantAccess(tid, rep) ==
    IF Raises(rep)
    THEN \* catch (error) { return false }
         [result |-> JBool(FALSE), threw |-> FALSE]
    ELSE [result |-> JBool(Get(Props(rep.data), "valid") = JBool(TRUE)), threw |-> FALSE]

\* getTenantConfig(tenantId): null from its catch block, else the tenant's
\* fields over their defaults
getTenantConfig(tid, rep) ==
    IF Raises(rep)
    THEN JNull
    ELSE LET tenant == Props(rep.data)
         IN  JObj([id |-> Get(tenant, "id"),
                   name |-> Get(tenant, "name"),
                   region |-> Or(Get(tenant, "region"), JStr("africa-west")),
                   currency |-> Or(Get(tenant, "currency"), JStr("NGN")),
                   timezone |-> Or(Get(tenant, "timezone"), JStr("Africa/Lagos")),
                   languages |-> Or(Get(tenant, "languages"), JArr(<<"en", "ha">>)),
                   subscription_tier |-> Or(Get(tenant, "subscription_tier"), JStr("free"))])

\* validateTenantConfig(tenantId) of the startup
validateTenantConfig(tid, rep) ==
    LET tenantConfig == getTenantConfig(tid, rep)
        \* setupAfricanMarketTenant(tenantConfig)
        africanConfig ==
            Spread(Props(tenantConfig),
                   [localization |->
                        JObj([currency |-> Or(Get(Props(tenantConfig), "currency"), JStr("NGN")),
                              language |-> Or(Get(Props(tenantConfig), "language"), JStr("en")),
                              timezone |-> Or(Get(Props(tenantConfig), "timezone"),
                                              JStr("Africa/Lagos"))])])
    IN  IF ~Truthy(tenantConfig)
        THEN \* throw new Error(`Tenant ${tenantId} not found`), caught
             [result |-> JObj([valid |-> JBool(FALSE), error |-> JStr("Tenant not found"),
                               message |-> JStr("Tenant configuration validation failed")]),
              threw |-> FALSE]
        ELSE [result |-> JObj([valid |-> JBool(TRUE), tenant |-> JObj(africanConfig),
                               message |-> JStr("Tenant configuration valid")]),
              threw |-> FALSE]

\* one call of validateTenantAccess
CheckAccess ==
    /\ access.fn = ""
    /\ \E tid \in Headers \ {JUndef}, rep \in FetchOutcomes :
        access' = [fn |-> "validateTenantAccess", tenantId |-> tid, reply |-> rep]
                      @@ validateTenantAccess(tid, rep)
    /\ UNCHANGED <<pc, node, inputs, tenantId, request, attempts, reply, envelope, thrown,
                   resolved, filtered, validated, slots, globals, handled>>

\* one call of validateTenantConfig
CheckConfig ==
    /\ access.fn = ""
    /\ \E tid \in Headers \ {JUndef}, rep \in FetchOutcomes :
        access' = [fn |-> "validateTenantConfig", tenantId |-> tid, reply |-> rep]
                      @@ validateTenantConfig(tid, rep)
    /\ UNCHANGED <<pc, node, inputs, tenantId, request, attempts, reply, envelope, thrown,
                   resolved, filtered, validated, slots, globals, handled>>

NextAccess ==
    \/ CheckAccess
    \/ CheckConfig

SpecAccess == Init /\ [][NextAccess]_vars

\* C30: validateTenantAccess never throws and returns true only when the
\* backend answered ok with a body whose valid field is exactly true, and false
\* for every other outcome; validateTenantConfig never throws and returns
\* valid false whenever the tenant configuration could not be fetched (the
\* fetch failed, the status was not ok, or the body could not be parsed).
C30_FailsClosed ==
    /\ access.fn = "validateTenantAccess" =>
          /\ ~access.threw
          /\ access.result \in {JBool(TRUE), JBool(FALSE)}
          /\ access.result = JBool(TRUE) <=>
                /\ access.reply.kind = "ok"
                /\ IsObj(access.reply.data)
                /\ Get(Props(access.reply.data), "valid") = JBool(TRUE)
    /\ (/\ access.fn = "validateTenantConfig"
        /\ \/ access.reply.kind # "ok"
           \/ access.reply.data = BadJson) =>
          /\ ~access.threw
          /\ Get(Props(access.result), "valid") = JBool(FALSE)

\* the backend answered ok with valid the string "true", and
\* validateTenantAccess returned false
C30_Witness ==
    /\ access.fn = "validateTenantAccess"
    /\ access.reply.kind = "ok"
    /\ IsObj(access.reply.data)
    /\ Get(Props(access.reply.data), "valid") = JStr("true")
    /\ access.result = JBool(FALSE)

====
